---- MODULE Spec2Model ----
(***************************************************************************)
(* A model of the oci-extract extraction engine: the orchestrator that     *)
(* walks an image's layers top-down and tries one extraction strategy      *)
(* after another (internal/extractor/orchestrator.go), the format          *)
(* detector (internal/detector/format.go), the streaming and seekable      *)
(* extractors, the display-path normalisation and the HTTP range reader    *)
(* (internal/remote/reader.go).                                            *)
(*                                                                         *)
(* Paths are sequences of one-character strings: "/a" is <<"/", "a">>.     *)
(* Layers are numbered 1..n, layer n being the top layer (index n-1 of     *)
(* the source's slice).                                                    *)
(***************************************************************************)
EXTENDS Integers, Sequences, FiniteSets, TLC

VARIABLES
    layers,     \* the image: a sequence of layer descriptors, bottom first
    sociIndex,  \* whether the DiscoverSOCIIndex of Extract finds an index
    opts,       \* the options of the running call (Extract or List)
    pc,         \* position of the call: "layer", "try", "done"; of an
                \* extractor run on its own: "open", "walk", "walking",
                \* "create", "copy", "write", "done"
    li,         \* the loop variable i of Extract / List, as a layer number
    format,     \* extractFromLayer's / listFromLayer's local variable format
    stage,      \* the first block of extractFromLayer / listFromLayer not yet passed
    attempts,   \* history: the strategies attempted on the current layer, in
                \* order, the kinds of outcome they had, the last one in full
    visited,    \* history: the layers the loop has left, with the outcomes seen
    out,        \* the file at OutputPath
    result,     \* what the call returned
    allFiles,   \* List's accumulator
    rd,         \* the RemoteReader: size and cache fields
    blob,       \* the bytes the blob URL serves
    reqs,       \* history: the number of ranged GETs the reader has sent
    wire,       \* history: the HEAD request of NewRemoteReader and its answer
    cacheMu,    \* the reader's lock cacheMu: the goroutines holding it
    gor,        \* the goroutines calling ReadAt: the position of each in
                \* ReadAt, its p, off and n, and what its call returned
    installs,   \* history: the segments installed in the cache of a reader
                \* that has several callers
    keychain,   \* the credentials the registry client fetched the manifest with
    cancelled,  \* whether the context passed to the call has been cancelled
    arg,        \* the input of a function applied on its own
    ret         \* what that function returned

vars == <<layers, sociIndex, opts, pc, li, format, stage, attempts, visited,
          out, result, allFiles, rd, blob, reqs, wire, cacheMu, gor,
          installs, keychain, cancelled, arg, ret>>

orchVars == <<layers, sociIndex, opts, pc, li, format, stage, attempts, visited,
              out, result, allFiles>>
image == <<layers, sociIndex, opts>>
concVars == <<cacheMu, gor, installs>>
readerVars == <<rd, blob, reqs, wire, cacheMu, gor, installs>>
callVars == <<keychain, cancelled>>
pureVars == <<arg, ret>>

--------------------------------------------------------------------------
(* Bounds of the model.                                                    *)

MaxLayers == 2

None == "none"

(* No link target / no path named.                                        *)
NoLink == <<>>

--------------------------------------------------------------------------
(* strings: the two functions of package strings the code uses.            *)

HasPrefix(s, prefix) ==
    /\ Len(s) >= Len(prefix)
    /\ SubSeq(s, 1, Len(prefix)) = prefix

TrimPrefix(s, prefix) ==
    IF HasPrefix(s, prefix) THEN SubSeq(s, Len(prefix) + 1, Len(s)) ELSE s

Slash == <<"/">>
DotSlash == <<".", "/">>

--------------------------------------------------------------------------
(* pathutil.NormalizeForDisplay                                            *)

NormalizeForDisplay(path) ==
    LET p == TrimPrefix(path, DotSlash)
    IN  IF ~HasPrefix(p, Slash) THEN Slash \o p ELSE p

--------------------------------------------------------------------------
(* detector: the Format enumeration, by the names String() gives.          *)

FormatUnknown == "unknown"
FormatStandard == "standard"
FormatEStargz == "estargz"
FormatSOCI == "soci"
FormatZstd == "zstd"
FormatZstdChunked == "zstd:chunked"

Formats == {FormatUnknown, FormatStandard, FormatEStargz, FormatSOCI,
            FormatZstd, FormatZstdChunked}

MTOciGzip == "application/vnd.oci.image.layer.v1.tar+gzip"
MTDockerGzip == "application/vnd.docker.image.rootfs.diff.tar.gzip"
MTOciZstd == "application/vnd.oci.image.layer.v1.tar+zstd"
MTDockerZstd == "application/vnd.docker.image.rootfs.diff.tar.zstd"
MTForeign == "application/vnd.docker.image.rootfs.foreign.diff.tar.gzip"
MTError == "error"   \* layer.MediaType() returns an error

FooterSize == 47

(* checkEStargzFooter: the size test, and then no read of the footer at    *)
(* all: both branches answer false.                                        *)
checkEStargzFooter(layer) ==
    IF layer.size < FooterSize THEN FALSE ELSE FALSE

(* DetectFormat: [format, err].                                            *)
DetectFormat(layer) ==
    LET mt == layer.mediaType
    IN  IF mt = MTError THEN [format |-> FormatUnknown, err |-> TRUE]
        ELSE IF mt = MTOciZstd \/ mt = MTDockerZstd
             THEN [format |-> FormatZstd, err |-> FALSE]
        ELSE IF checkEStargzFooter(layer)
             THEN [format |-> FormatEStargz, err |-> FALSE]
        ELSE IF mt = MTOciGzip \/ mt = MTDockerGzip
             THEN [format |-> FormatStandard, err |-> FALSE]
        ELSE [format |-> FormatUnknown, err |-> FALSE]

(* The compression of a layer's blob, as its media type says.              *)
Compression(layer) ==
    IF layer.mediaType \in {MTOciZstd, MTDockerZstd} THEN "zstd" ELSE "gzip"

--------------------------------------------------------------------------
(* archive/tar type flags, and the layers the model draws.                 *)

TypeReg == "reg"
TypeLink == "link"
TypeSymlink == "symlink"
TypeDir == "dir"

(* What one strategy attempt meets outside the program: whether the HEAD   *)
(* of NewRemoteReader succeeds (head), whether the blob can be fetched     *)
(* (net), whether the blob carries a stargz TOC the estargz library opens  *)
(* (toc), whether the SOCI index holds a zTOC for the layer (ztoc), and    *)
(* which local file operation fails, if any (io).                          *)
Envs ==
    [head : {"ok", "fail"}, net : {"ok", "fail"}, toc : BOOLEAN,
     ztoc : BOOLEAN, io : {"ok", "mkdir", "create", "copy"}]

(* The environments with at most one failure at a time in which the       *)
(* fields outside `fields` are at their defaults.                          *)
EnvsObserving(fields) ==
    {e \in Envs :
       /\ Cardinality({f \in {"head", "net", "io"} : e[f] # "ok"}) <= 1
       /\ "head" \notin fields => e.head = "ok"
       /\ "toc" \notin fields => ~e.toc
       /\ "ztoc" \notin fields => ~e.ztoc}

(* Streams read the blob and write the file; the seekable strategies also  *)
(* construct a RemoteReader and need the TOC, or the zTOC.                 *)
StreamEnvs == EnvsObserving({"net", "io"})
TocEnvs == EnvsObserving({"head", "net", "toc", "io"})
ZtocEnvs == EnvsObserving({"head", "net", "ztoc", "io"})

(* The environments drawn for one attempt of a strategy.                   *)
EnvsFor(strategy) ==
    CASE strategy = "estargz" -> TocEnvs
      [] strategy = "soci" -> ZtocEnvs
      [] strategy = "zstd:chunked" -> TocEnvs
      [] OTHER -> StreamEnvs

(* The outcome of one strategy attempt.  kind: "success", "absent" (the    *)
(* layer was read and holds no such entry), "nonregular", "harderr"        *)
(* (reader construction, transport, undecodable blob) or "ioerr" (local    *)
(* mkdir / create / write).  entry: the archive entry decided on.  link:   *)
(* the link target the error message names.  effect: what happened to the  *)
(* output path.  reader: whether a RemoteReader was constructed.           *)
Outcome(kind, entry, link, effect, reader) ==
    [kind |-> kind, entry |-> entry, link |-> link, effect |-> effect,
     reader |-> reader]

--------------------------------------------------------------------------
(* The streaming extractors (standard: gzip+tar, zstd: zstd+tar).          *)

normalizedTarget(targetPath) == TrimPrefix(targetPath, Slash)

normalizedEntry(name) == TrimPrefix(TrimPrefix(name, DotSlash), Slash)

(* Faulty variant: the walk decides on the last matching entry.            *)
MatchIndexLast(entries, targetPath) ==
    LET hits == {k \in 1..Len(entries) :
                    normalizedEntry(entries[k].name) = normalizedTarget(targetPath)}
    IN  IF hits = {} THEN 0 ELSE CHOOSE k \in hits : \A j \in hits : k >= j

(* The tar walk: the index of the first entry whose normalised name is the *)
(* normalised target, 0 at the end of the archive.                         *)
MatchIndex(entries, targetPath) ==
    LET hits == {k \in 1..Len(entries) :
                    normalizedEntry(entries[k].name) = normalizedTarget(targetPath)}
    IN  IF hits = {} THEN 0 ELSE CHOOSE k \in hits : \A j \in hits : k <= j

(* MkdirAll, Create, Copy on the output path.                              *)
WriteOutput(k, env, reader) ==
    IF env.io = "mkdir" THEN Outcome("ioerr", k, NoLink, "none", reader)
    ELSE IF env.io = "create" THEN Outcome("ioerr", k, NoLink, "mkdir", reader)
    ELSE IF env.io = "copy" THEN Outcome("ioerr", k, NoLink, "partial", reader)
    ELSE Outcome("success", k, NoLink, "full", reader)

(* The loop over tarReader.Next() that standard.ExtractFile,               *)
(* zstd.Extractor.ExtractFile and the fallback of                          *)
(* zstd.ChunkedExtractor.ExtractFile share.                                *)
TarWalkExtract(entries, targetPath, env, reader) ==
    LET k == MatchIndex(entries, targetPath)
    IN  IF k = 0 THEN Outcome("absent", 0, NoLink, "none", reader)
        ELSE LET header == entries[k]
             IN  IF header.typeflag # TypeReg /\ header.typeflag # TypeSymlink
                    /\ header.typeflag # TypeLink
                 THEN Outcome("nonregular", k, NoLink, "none", reader)
                 ELSE IF header.typeflag = TypeSymlink \/ header.typeflag = TypeLink
                 THEN Outcome("nonregular", k, header.linkname, "none", reader)
                 ELSE WriteOutput(k, env, reader)

(* standard.Extractor.ExtractFile                                          *)
StandardExtractFile(layer, targetPath, env) ==
    IF env.net = "fail" \/ Compression(layer) # "gzip"
    THEN Outcome("harderr", 0, NoLink, "none", FALSE)
    ELSE TarWalkExtract(layer.entries, targetPath, env, FALSE)

(* zstd.Extractor.ExtractFile                                              *)
ZstdExtractFile(layer, targetPath, env) ==
    IF env.net = "fail" \/ Compression(layer) # "zstd"
    THEN Outcome("harderr", 0, NoLink, "none", FALSE)
    ELSE TarWalkExtract(layer.entries, targetPath, env, FALSE)

--------------------------------------------------------------------------
(* The seekable extractors.  The estargz and ztoc libraries are outside    *)
(* the repository: Lookup / OpenFile / ztoc.ExtractFile are taken to find  *)
(* the entry a tar walk finds and to yield bytes for a regular file only.  *)

TocLookup(entries, targetPath) ==
    LET hits == {k \in 1..Len(entries) :
                    normalizedEntry(entries[k].name) = normalizedEntry(targetPath)}
    IN  IF hits = {} THEN 0 ELSE CHOOSE k \in hits : \A j \in hits : k <= j

(* estargz.Extractor.ExtractFile, once the RemoteReader exists.            *)
EStargzExtractFile(layer, targetPath, env) ==
    LET k == TocLookup(layer.entries, targetPath)
    IN  IF env.net = "fail" \/ ~env.toc \/ Compression(layer) # "gzip"
        THEN Outcome("harderr", 0, NoLink, "none", TRUE)
        ELSE IF k = 0 THEN Outcome("absent", 0, NoLink, "none", TRUE)
        ELSE IF layer.entries[k].typeflag # TypeReg
        THEN Outcome("nonregular", k, NoLink, "none", TRUE)
        ELSE WriteOutput(k, env, TRUE)

(* zstd.ChunkedExtractor.ExtractFile, once the RemoteReader exists: the    *)
(* TOC first, and on any miss there the zstd+tar walk over the reader.     *)
ChunkedExtractFile(layer, targetPath, env) ==
    LET k == TocLookup(layer.entries, targetPath)
    IN  IF env.net = "ok" /\ env.toc /\ Compression(layer) = "gzip"
           /\ k # 0 /\ layer.entries[k].typeflag = TypeReg
        THEN WriteOutput(k, env, TRUE)
        ELSE IF env.net = "fail" \/ Compression(layer) # "zstd"
        THEN Outcome("harderr", 0, NoLink, "none", TRUE)
        ELSE TarWalkExtract(layer.entries, targetPath, env, TRUE)

(* soci.Extractor.ExtractFile, once reader and zTOC exist.                 *)
SociExtractFile(layer, targetPath, env) ==
    LET k == TocLookup(layer.entries, targetPath)
    IN  IF env.net = "fail" \/ Compression(layer) # "gzip"
        THEN Outcome("harderr", 0, NoLink, "none", TRUE)
        ELSE IF k = 0 THEN Outcome("absent", 0, NoLink, "none", TRUE)
        ELSE IF layer.entries[k].typeflag # TypeReg
        THEN Outcome("nonregular", k, NoLink, "none", TRUE)
        ELSE WriteOutput(k, env, TRUE)

--------------------------------------------------------------------------
(* remote.NewRemoteReader, as the orchestrator sees it: it fails unless    *)
(* the HEAD answers 200 with Accept-Ranges: bytes.                         *)
ReaderOpens(env) == env.head = "ok"

(* Orchestrator.extractEStargz ... extractZstdChunked                      *)
extractEStargz(layer, o, env) ==
    IF ~ReaderOpens(env) THEN Outcome("harderr", 0, NoLink, "none", FALSE)
    ELSE EStargzExtractFile(layer, o.FilePath, env)

extractSOCI(layer, index, o, env) ==
    IF ~index THEN Outcome("harderr", 0, NoLink, "none", FALSE)
    ELSE IF ~ReaderOpens(env) THEN Outcome("harderr", 0, NoLink, "none", FALSE)
    ELSE IF ~env.ztoc THEN Outcome("harderr", 0, NoLink, "none", TRUE)
    ELSE SociExtractFile(layer, o.FilePath, env)

extractStandard(layer, o, env) == StandardExtractFile(layer, o.FilePath, env)

extractZstd(layer, o, env) == ZstdExtractFile(layer, o.FilePath, env)

extractZstdChunked(layer, o, env) ==
    IF ~ReaderOpens(env) THEN Outcome("harderr", 0, NoLink, "none", FALSE)
    ELSE ChunkedExtractFile(layer, o.FilePath, env)

--------------------------------------------------------------------------
(* Orchestrator.Extract and Orchestrator.extractFromLayer.                 *)

StrategyOf(s) ==
    CASE s = 1 -> FormatEStargz
      [] s = 2 -> FormatSOCI
      [] s = 3 -> FormatZstdChunked
      [] s = 4 -> FormatZstd
      [] OTHER -> FormatStandard

LastStage == 5

(* Extract discovers the SOCI index only in auto mode or when SOCI is      *)
(* forced; otherwise its sociIndex stays nil.                              *)
ExtractSociIndex(o) ==
    /\ o.ForceFormat = FormatSOCI \/ o.ForceFormat = FormatUnknown
    /\ sociIndex

(* The format extractFromLayer works with: the forced one, else the        *)
(* detector's, and estargz when detection fails.                           *)
ExtractFormat(layer, o) ==
    IF o.ForceFormat # FormatUnknown THEN o.ForceFormat
    ELSE IF DetectFormat(layer).err THEN FormatEStargz
    ELSE DetectFormat(layer).format

(* The conditions of the five `if` blocks of extractFromLayer.             *)
ExtractTries(s, f, index) ==
    CASE s = 1 -> f = FormatUnknown \/ f = FormatEStargz
      [] s = 2 -> (f = FormatUnknown \/ f = FormatSOCI) /\ index
      [] s = 3 -> f = FormatUnknown \/ f = FormatZstd \/ f = FormatZstdChunked
      [] s = 4 -> f = FormatUnknown \/ f = FormatZstd
      [] OTHER -> f = FormatUnknown \/ f = FormatStandard

ExtractAttempt(s, layer, o, env) ==
    CASE s = 1 -> extractEStargz(layer, o, env)
      [] s = 2 -> extractSOCI(layer, ExtractSociIndex(o), o, env)
      [] s = 3 -> extractZstdChunked(layer, o, env)
      [] s = 4 -> extractZstd(layer, o, env)
      [] OTHER -> extractStandard(layer, o, env)

(* What Extract returns: nil (None), or an error with the path and link    *)
(* target its message names.                                               *)
Returned(err, path, link) == [err |-> err, path |-> path, link |-> link]

ErrNotFound == "not found in any layer"

NoResult == Returned("pending", NoLink, NoLink)

(* No file at OutputPath.                                                  *)
NoFile == [layer |-> 0, entry |-> 0, complete |-> FALSE]

(* Faulty variant: a walk that stops above the bottom layer.               *)
InLoopAboveBottom(i) == i >= 2

(* The loop `for i := len(layers) - 1; i >= 0; i--`, in layer numbers.     *)
TopLayer(ls) == Len(ls)

InLoop(i) == i >= 1

(* Faulty variant: the loop steps over a layer.                            *)
NextLayerSkips(i) == i - 2

(* `i--`                                                                   *)
NextLayer(i) == i - 1

(* Faulty variants: a reported success does not end the call; a hard       *)
(* error ends it.                                                          *)
ReturnsExtractedOrFailed(outcome) == outcome.kind \in {"success", "harderr"}

ReturnsExtractedNever(outcome) == FALSE

(* `if err == nil && extracted { return true, nil }`                       *)
ReturnsExtracted(outcome) == outcome.kind = "success"

(* The output path after an attempt on layer i.                            *)
ApplyEffect(o, i, outcome) ==
    CASE outcome.effect = "none" -> o
      [] outcome.effect = "mkdir" -> [o EXCEPT !.dir = TRUE]
      [] outcome.effect = "partial" ->
            [dir |-> TRUE,
             file |-> [layer |-> i, entry |-> outcome.entry, complete |-> FALSE]]
      [] OTHER ->
            [dir |-> TRUE,
             file |-> [layer |-> i, entry |-> outcome.entry, complete |-> TRUE]]

(* No reader, transport or local I/O failure met the attempt.              *)
Faultless(env) == env.head = "ok" /\ env.net = "ok" /\ env.io = "ok"

LogEntry(i, s, outcome, env) ==
    [layer |-> i, strategy |-> StrategyOf(s), kind |-> outcome.kind,
     link |-> outcome.link, faultless |-> Faultless(env)]

NoTry ==
    [layer |-> 0, strategy |-> None, kind |-> None, link |-> NoLink,
     faultless |-> FALSE]

NoAttempts == [tried |-> <<>>, kinds |-> {}, last |-> NoTry]

Logged(log, i, s, outcome, env) ==
    [tried |-> Append(log.tried, StrategyOf(s)),
     kinds |-> log.kinds \cup {outcome.kind},
     last |-> LogEntry(i, s, outcome, env)]

(* The head of the loop body: extractFromLayer is entered for layer i.     *)
BeginLayer ==
    /\ pc = "layer"
    /\ opts.op = "extract"
    /\ InLoop(li)
    /\ format' = ExtractFormat(layers[li], opts)
    /\ stage' = 1
    /\ pc' = "try"
    /\ UNCHANGED <<image, li, attempts, visited, out, result, allFiles,
                   readerVars, callVars, pureVars>>

(* The blocks from stage on whose condition holds.                         *)
BlocksLeft ==
    {t \in stage..LastStage : ExtractTries(t, format, ExtractSociIndex(opts))}

(* One `if` block of extractFromLayer whose condition holds, reached past  *)
(* the blocks whose conditions do not: one strategy attempt.               *)
TryStrategy(s) ==
    /\ pc = "try"
    /\ opts.op = "extract"
    /\ s \in BlocksLeft
    /\ \A t \in BlocksLeft : s <= t
    /\ \E env \in EnvsFor(StrategyOf(s)) :
          LET outcome == ExtractAttempt(s, layers[li], opts, env)
          IN  /\ attempts' = Logged(attempts, li, s, outcome, env)
              /\ out' = ApplyEffect(out, li, outcome)
              /\ IF ReturnsExtracted(outcome)
                 THEN /\ pc' = "done"
                      /\ result' = Returned(None, NoLink, NoLink)
                      /\ stage' = s
                 ELSE /\ stage' = s + 1
                      /\ UNCHANGED <<pc, result>>
    /\ UNCHANGED <<image, li, format, visited, allFiles, readerVars, callVars,
                   pureVars>>

TryEStargz == TryStrategy(1)
TrySOCI == TryStrategy(2)
TryZstdChunked == TryStrategy(3)
TryZstd == TryStrategy(4)
TryStandard == TryStrategy(5)

(* extractFromLayer returns (false, nil), its locals are gone, and the     *)
(* loop goes on to layer i-1.                                              *)
EndLayer ==
    /\ pc = "try"
    /\ opts.op = "extract"
    /\ BlocksLeft = {}
    /\ visited' = Append(visited, [layer |-> li, tried |-> attempts.tried,
                                    kinds |-> attempts.kinds])
    /\ attempts' = NoAttempts
    /\ format' = FormatUnknown
    /\ stage' = 1
    /\ li' = NextLayer(li)
    /\ pc' = "layer"
    /\ UNCHANGED <<image, out, result, allFiles, readerVars, callVars,
                   pureVars>>

(* The loop is over: "file %s not found in any layer".                     *)
NotFound ==
    /\ pc = "layer"
    /\ opts.op = "extract"
    /\ ~InLoop(li)
    /\ result' = Returned(ErrNotFound, opts.FilePath, NoLink)
    /\ pc' = "done"
    /\ UNCHANGED <<image, li, format, stage, attempts, visited, out, allFiles,
                   readerVars, callVars, pureVars>>

--------------------------------------------------------------------------
(* The images and requests the model draws.                                *)

TargetName == <<"a">>
LinkTarget == <<"/", "b">>

Entry(name, typeflag) ==
    [name |-> name, typeflag |-> typeflag,
     linkname |-> IF typeflag \in {TypeSymlink, TypeLink} THEN LinkTarget ELSE <<>>]

(* A layer's archive holds the requested name at most once here: not at   *)
(* all, as a regular file, or as a symlink.                                *)
ExtractEntryLists ==
    {<<>>} \cup {<<Entry(TargetName, t)>> : t \in {TypeReg, TypeSymlink}}

(* The media types of the layers a call works on.  GetEnhancedLayers has   *)
(* asked every layer for its media type (GetLayerInfo) before the loop     *)
(* starts, and a layer whose MediaType() fails makes Extract and List      *)
(* return "failed to get image layers" before any layer is looked at: a    *)
(* layer of the loop has a media type.                                     *)
MediaTypes == {MTOciGzip, MTOciZstd, MTForeign}

LayerSizes == {64}

ExtractLayers == [mediaType : MediaTypes, size : LayerSizes, entries : ExtractEntryLists]

Images(layerSet) ==
    UNION {[1..n -> layerSet] : n \in 1..MaxLayers}

FilePaths == {<<"/", "a">>, <<".", "/", "a">>}

(* Whether the image has a SOCI index matters only to a call that looks    *)
(* for one: Extract does so in auto mode and when SOCI is forced.          *)
IndexChoices(o) ==
    IF o.ForceFormat = FormatSOCI \/ o.ForceFormat = FormatUnknown
    THEN BOOLEAN ELSE {FALSE}

(* No RemoteReader constructed, no ReadAt called.                          *)
NoReader ==
    [state |-> "none", client |-> None, size |-> 0, cacheValid |-> FALSE,
     cacheStart |-> 0, cacheEnd |-> 0, cacheData |-> <<>>]

NoRead ==
    [called |-> FALSE, off |-> 0, len |-> 0, n |-> 0, data |-> <<>>,
     err |-> None, status |-> 0]

(* sync.RWMutex, unlocked: no reader and no writer holds it.               *)
Unlocked == [readers |-> {}, writer |-> 0]

(* A goroutine outside ReadAt that has not called it yet.                  *)
NoCall == [pc |-> "idle", read |-> NoRead, cacheOffset |-> 0]

(* The caller of a reader that is not shared: the call that constructed    *)
(* it.                                                                     *)
Callers == {1}

OneCaller == [g \in Callers |-> NoCall]

(* An HTTP request of NewRemoteReader and the answer it got.  auth: the    *)
(* credentials the request carries.  kind: "response" or "neterr".         *)
Request(method, auth, kind, status, acceptRanges, contentLength) ==
    [method |-> method, auth |-> auth, kind |-> kind, status |-> status,
     acceptRanges |-> acceptRanges, contentLength |-> contentLength]

NoRequest == Request(None, None, None, 0, None, 0)

(* The credentials of `client := &http.Client{}`: none.                    *)
ClientAuth == None

(* What authn.DefaultKeychain resolves for the registry.                   *)
Keychains == {"anonymous", "token"}

(* No function applied on its own.                                         *)
NoArg == [fn |-> None]

NoRet == [fn |-> None]

(* The state outside the call while a call runs.                           *)
IdleRest ==
    /\ cancelled = FALSE
    /\ arg = NoArg
    /\ ret = NoRet

IdleConc ==
    /\ cacheMu = Unlocked
    /\ gor = OneCaller
    /\ installs = {}

IdleReader ==
    /\ rd = NoReader
    /\ blob = <<>>
    /\ reqs = 0
    /\ wire = NoRequest
    /\ IdleConc

(* Extract with a request for one of `paths`, at the entry of its loop     *)
(* over the layers: GetEnhancedLayers has returned the descriptors.  The   *)
(* descriptor fetch and its error return lie outside the model.            *)
InitExtract(paths) ==
    /\ layers \in Images(ExtractLayers)
    /\ opts \in [op : {"extract"}, FilePath : paths, ForceFormat : Formats]
    /\ sociIndex \in IndexChoices(opts)
    /\ pc = "layer"
    /\ li = TopLayer(layers)
    /\ format = FormatUnknown
    /\ stage = 1
    /\ attempts = NoAttempts
    /\ visited = <<>>
    /\ out = [dir |-> FALSE, file |-> NoFile]
    /\ result = NoResult
    /\ allFiles = <<>>
    /\ IdleReader
    /\ keychain = "anonymous"
    /\ IdleRest

Init == InitExtract(FilePaths)

Next ==
    \/ BeginLayer
    \/ TryEStargz
    \/ TrySOCI
    \/ TryZstdChunked
    \/ TryZstd
    \/ TryStandard
    \/ EndLayer
    \/ NotFound

Spec == Init /\ [][Next]_vars

--------------------------------------------------------------------------
(* The ListFiles functions of the extractors and the list* helpers of the  *)
(* orchestrator.  A listing yields an error or the names it reports.       *)

Listing(err, files) == [err |-> err, files |-> files]

IsRegular(entry) == entry.typeflag = TypeReg

(* `if header.Typeflag == tar.TypeReg { files = append(files, header.Name) }` *)
RegularNames(entries) ==
    LET regs == SelectSeq(entries, IsRegular)
    IN  [k \in 1..Len(regs) |-> regs[k].name]

(* `files = append(files, pathutil.NormalizeForDisplay(header.Name))`      *)
NormalizedNames(entries) ==
    LET regs == SelectSeq(entries, IsRegular)
    IN  [k \in 1..Len(regs) |-> NormalizeForDisplay(regs[k].name)]

StandardListFiles(layer, env) ==
    IF env.net = "fail" \/ Compression(layer) # "gzip"
    THEN Listing(TRUE, <<>>)
    ELSE Listing(FALSE, RegularNames(layer.entries))

ZstdListFiles(layer, env) ==
    IF env.net = "fail" \/ Compression(layer) # "zstd"
    THEN Listing(TRUE, <<>>)
    ELSE Listing(FALSE, RegularNames(layer.entries))

ChunkedListFiles(layer, env) ==
    IF env.net = "fail" \/ Compression(layer) # "zstd"
    THEN Listing(TRUE, <<>>)
    ELSE Listing(FALSE, NormalizedNames(layer.entries))

EStargzListFiles(layer, env) ==
    IF env.net = "fail" \/ Compression(layer) # "gzip"
    THEN Listing(TRUE, <<>>)
    ELSE Listing(FALSE, NormalizedNames(layer.entries))

(* The zTOC's file metadata mirrors the layer's archive.                   *)
SociListFiles(layer) == Listing(FALSE, NormalizedNames(layer.entries))

listEStargz(layer, env) ==
    IF ~ReaderOpens(env) THEN Listing(TRUE, <<>>)
    ELSE EStargzListFiles(layer, env)

listSOCI(layer, env) ==
    IF ~env.ztoc THEN Listing(TRUE, <<>>)
    ELSE IF ~ReaderOpens(env) THEN Listing(TRUE, <<>>)
    ELSE SociListFiles(layer)

listStandard(layer, env) == StandardListFiles(layer, env)

listZstd(layer, env) == ZstdListFiles(layer, env)

listZstdChunked(layer, env) ==
    IF ~ReaderOpens(env) THEN Listing(TRUE, <<>>)
    ELSE ChunkedListFiles(layer, env)

(* listFromLayer: the forced format, else the detector's, and standard     *)
(* when detection fails.                                                   *)
ListFormat(layer, o) ==
    IF o.ForceFormat # FormatUnknown THEN o.ForceFormat
    ELSE IF DetectFormat(layer).err THEN FormatStandard
    ELSE DetectFormat(layer).format

(* The conditions of the blocks of listFromLayer; the standard listing    *)
(* has no condition.                                                       *)
ListTries(s, f) ==
    CASE s = 1 -> f = FormatUnknown \/ f = FormatEStargz
      [] s = 2 -> f = FormatUnknown \/ f = FormatSOCI
      [] s = 3 -> f = FormatUnknown \/ f = FormatZstd \/ f = FormatZstdChunked
      [] s = 4 -> f = FormatUnknown \/ f = FormatZstd
      [] OTHER -> TRUE

(* `err == nil && sociIndex != nil` inside the SOCI block: listFromLayer   *)
(* calls DiscoverSOCIIndex anew for every layer that reaches the block,    *)
(* and each call finds an index or does not; the other blocks discover     *)
(* nothing.                                                                *)
ListDiscovers(s) == IF s = 2 THEN BOOLEAN ELSE {TRUE}

ListAttempt(s, layer, env) ==
    CASE s = 1 -> listEStargz(layer, env)
      [] s = 2 -> listSOCI(layer, env)
      [] s = 3 -> listZstdChunked(layer, env)
      [] s = 4 -> listZstd(layer, env)
      [] OTHER -> listStandard(layer, env)

(* The merge loop of List: fileSet is filled from allFiles before the      *)
(* layer's files are appended and is not updated while they are.           *)
Merge(all, files) ==
    LET fileSet == {all[k] : k \in 1..Len(all)}
        Fresh(f) == f \notin fileSet
    IN  all \o SelectSeq(files, Fresh)

ListLogEntry(i, s, listing) ==
    [layer |-> i, strategy |-> StrategyOf(s),
     kind |-> IF listing.err THEN "listerr" ELSE "listed",
     link |-> NoLink, faultless |-> FALSE]

(* The environments of a listing attempt: no local file is written.        *)
ListEnvsFor(strategy) == {e \in EnvsFor(strategy) : e.io = "ok"}

(* The head of List's loop body: listFromLayer is entered for layer i.     *)
ListBeginLayer ==
    /\ pc = "layer"
    /\ opts.op = "list"
    /\ InLoop(li)
    /\ format' = ListFormat(layers[li], opts)
    /\ stage' = 1
    /\ pc' = "try"
    /\ UNCHANGED <<image, li, attempts, visited, out, result, allFiles,
                   readerVars, callVars, pureVars>>

(* The blocks of listFromLayer from stage on whose condition holds.        *)
ListBlocksLeft ==
    {t \in stage..LastStage : ListTries(t, format)}

(* One block of listFromLayer whose condition holds, reached past the      *)
(* blocks whose conditions do not.  The SOCI block whose discovery finds   *)
(* no index calls no listing and goes on to the next block; every other    *)
(* block makes one listing attempt.  A listing without error returns to    *)
(* List, which merges it and goes on to layer i-1; an error of the         *)
(* standard listing returns to List, which goes on to layer i-1 with       *)
(* nothing merged.                                                         *)
ListStrategy(s) ==
    /\ pc = "try"
    /\ opts.op = "list"
    /\ s \in ListBlocksLeft
    /\ \A t \in ListBlocksLeft : s <= t
    /\ \E found \in ListDiscovers(s), env \in ListEnvsFor(StrategyOf(s)) :
          LET listing == ListAttempt(s, layers[li], env)
              log == [tried |-> Append(attempts.tried, StrategyOf(s)),
                      kinds |-> attempts.kinds \cup {ListLogEntry(li, s, listing).kind},
                      last |-> ListLogEntry(li, s, listing)]
          IN  IF ~found
              THEN /\ stage' = s + 1
                   /\ UNCHANGED <<pc, li, format, attempts, visited, allFiles>>
              ELSE
              IF ~listing.err \/ s = LastStage
              THEN /\ allFiles' = IF listing.err THEN allFiles
                                  ELSE Merge(allFiles, listing.files)
                   /\ visited' = Append(visited,
                          [layer |-> li, tried |-> log.tried,
                           kinds |-> log.kinds, files |-> listing.files])
                   /\ attempts' = NoAttempts
                   /\ format' = FormatUnknown
                   /\ stage' = 1
                   /\ li' = NextLayer(li)
                   /\ pc' = "layer"
              ELSE /\ attempts' = log
                   /\ stage' = s + 1
                   /\ UNCHANGED <<pc, li, format, visited, allFiles>>
    /\ UNCHANGED <<image, out, result, readerVars, callVars, pureVars>>

ListEStargz == ListStrategy(1)
ListSOCI == ListStrategy(2)
ListZstdChunked == ListStrategy(3)
ListZstd == ListStrategy(4)
ListStandard == ListStrategy(5)

(* `return allFiles, nil`                                                  *)
ListReturn ==
    /\ pc = "layer"
    /\ opts.op = "list"
    /\ ~InLoop(li)
    /\ result' = Returned(None, NoLink, NoLink)
    /\ pc' = "done"
    /\ UNCHANGED <<image, li, format, stage, attempts, visited, out, allFiles,
                   readerVars, callVars, pureVars>>

(* The images List is run on: archives of up to MaxEntries entries whose   *)
(* names come in a relative and in an absolute spelling.                   *)
MaxEntries == 2

ListNames == {<<"a">>, <<"/", "b">>}

ListEntries ==
    {Entry(n, TypeReg) : n \in ListNames} \cup {Entry(<<"a">>, TypeDir)}

ListEntryLists == UNION {[1..n -> ListEntries] : n \in 0..MaxEntries}

ListLayers == [mediaType : MediaTypes, size : LayerSizes, entries : ListEntryLists]

(* List on an image of layers of `layerSet`, at the entry of its loop     *)
(* over the layers: GetEnhancedLayers has returned the descriptors.  List  *)
(* discovers no SOCI index of its own.                                     *)
InitListOn(layerSet) ==
    /\ layers \in Images(layerSet)
    /\ sociIndex = FALSE
    /\ opts \in [op : {"list"}, FilePath : {NoLink}, ForceFormat : Formats]
    /\ pc = "layer"
    /\ li = TopLayer(layers)
    /\ format = FormatUnknown
    /\ stage = 1
    /\ attempts = NoAttempts
    /\ visited = <<>>
    /\ out = [dir |-> FALSE, file |-> NoFile]
    /\ result = NoResult
    /\ allFiles = <<>>
    /\ IdleReader
    /\ keychain = "anonymous"
    /\ IdleRest

InitList == InitListOn(ListLayers)

NextList ==
    \/ ListBeginLayer
    \/ ListEStargz
    \/ ListSOCI
    \/ ListZstdChunked
    \/ ListZstd
    \/ ListStandard
    \/ ListReturn

SpecList == InitList /\ [][NextList]_vars

--------------------------------------------------------------------------
(* remote.RemoteReader: NewRemoteReader and ReadAt against a server that   *)
(* holds the blob.  Offsets are 0-based as in the code; sequences are      *)
(* 1-based.                                                                *)

StatusOK == 200
StatusPartialContent == 206
StatusRangeNotSatisfiable == 416

(* `cacheSize: 1024 * 1024`                                                *)
cacheSize == 1048576

MaxBlob == 3
MaxRead == 2
MaxReqs == 2

ByteValues == {"x", "y"}

Blobs == UNION {[1..n -> ByteValues] : n \in 0..MaxBlob}

Min(a, b) == IF a <= b THEN a ELSE b

Prefixes(seq) == {SubSeq(seq, 1, n) : n \in 0..Len(seq)}

StatusNoContent == 204
StatusUnauthorized == 401
StatusNotFound == 404

HeadStatuses == {StatusOK, StatusNoContent, StatusUnauthorized, StatusNotFound}

(* What the server may answer to HEAD.                                     *)
HeadResponses(b) ==
    [kind : {"response"}, status : HeadStatuses, acceptRanges : {"bytes", "none"},
     contentLength : {Len(b), -1}]
      \cup {[kind |-> "neterr", status |-> 0, acceptRanges |-> "none",
             contentLength |-> 0]}

(* Faulty variant: the Accept-Ranges header is not looked at.               *)
NewRemoteReaderAnyRanges(resp) ==
    IF resp.kind = "neterr" THEN [NoReader EXCEPT !.state = "failed"]
    ELSE IF resp.status # StatusOK THEN [NoReader EXCEPT !.state = "failed"]
    ELSE [NoReader EXCEPT !.state = "open", !.client = ClientAuth,
                          !.size = resp.contentLength]

(* NewRemoteReader: the reader, or the failure, for one HEAD response.     *)
NewRemoteReader(resp) ==
    IF resp.kind = "neterr" THEN [NoReader EXCEPT !.state = "failed"]
    ELSE IF resp.status # StatusOK THEN [NoReader EXCEPT !.state = "failed"]
    ELSE IF resp.acceptRanges # "bytes" THEN [NoReader EXCEPT !.state = "failed"]
    ELSE [NoReader EXCEPT !.state = "open", !.client = ClientAuth,
                          !.size = resp.contentLength]

(* The bytes off..end of the blob, both 0-based and inclusive.             *)
RangeBody(b, off, end) == SubSeq(b, off + 1, Min(end + 1, Len(b)))

(* What the server may answer to GET with `Range: bytes=off-end`: the      *)
(* range with 206, the whole blob with 200, either one cut short by the    *)
(* connection, a refusal, or no answer at all.  kind "broken": the read of *)
(* the body ends in an error that is neither io.EOF nor                    *)
(* io.ErrUnexpectedEOF after the bytes of `body`.                          *)
GetResponses(b, off, end) ==
    {[kind |-> k, status |-> StatusPartialContent, body |-> body] :
        k \in {"response", "broken"}, body \in Prefixes(RangeBody(b, off, end))}
      \cup {[kind |-> k, status |-> StatusOK, body |-> body] :
              k \in {"response", "broken"}, body \in Prefixes(b)}
      \cup {[kind |-> "response", status |-> StatusRangeNotSatisfiable, body |-> <<>>],
            [kind |-> "neterr", status |-> 0, body |-> <<>>]}

(* Faulty variant: the end of the range is not compared with cacheEnd.     *)
CacheHitFromStart(r, len, off) ==
    /\ r.cacheValid
    /\ off >= r.cacheStart
    /\ off < r.cacheEnd

(* `off >= r.cacheStart && off+len(p) <= r.cacheEnd` on a valid cache.     *)
CacheHit(r, len, off) ==
    /\ r.cacheValid
    /\ off >= r.cacheStart
    /\ off + len <= r.cacheEnd

(* The `end` of the range request.                                         *)
RangeEnd(r, len, off) ==
    IF off + len - 1 >= r.size THEN r.size - 1 ELSE off + len - 1

ReadResult(off, len, n, data, err, status) ==
    [called |-> TRUE, off |-> off, len |-> len, n |-> n, data |-> data,
     err |-> err, status |-> status]

(* io.ReadFull(resp.Body, p): the first len(p) bytes of the body, or all   *)
(* of a shorter body.                                                      *)
ReadFull(body, len) == SubSeq(body, 1, Min(len, Len(body)))

(* ReadAt up to the request: the result when no GET is needed.             *)
ReadAtLocal(r, len, off) ==
    IF off < 0 THEN ReadResult(off, len, 0, <<>>, "negative offset", 0)
    ELSE IF off >= r.size THEN ReadResult(off, len, 0, <<>>, "EOF", 0)
    ELSE ReadResult(off, len, len,
                    SubSeq(r.cacheData, off - r.cacheStart + 1,
                           off - r.cacheStart + len),
                    None, 0)

NeedsRequest(r, len, off) == off >= 0 /\ off < r.size /\ ~CacheHit(r, len, off)

(* Faulty variant: the status of the response is not looked at.            *)
ReadAtRemoteAnyStatus(len, off, resp) ==
    IF resp.kind = "neterr"
    THEN ReadResult(off, len, 0, <<>>, "request failed", 0)
    ELSE IF resp.kind = "broken" /\ Len(resp.body) < len
    THEN ReadResult(off, len, Len(resp.body), resp.body,
                    "failed to read response", resp.status)
    ELSE ReadResult(off, len, Len(ReadFull(resp.body, len)),
                    ReadFull(resp.body, len), None, resp.status)

(* ReadAt from the response on.                                            *)
ReadAtRemote(len, off, resp) ==
    IF resp.kind = "neterr"
    THEN ReadResult(off, len, 0, <<>>, "request failed", 0)
    ELSE IF resp.status # StatusPartialContent /\ resp.status # StatusOK
    THEN ReadResult(off, len, 0, <<>>, "status", resp.status)
    ELSE IF resp.kind = "broken" /\ Len(resp.body) < len
    THEN ReadResult(off, len, Len(resp.body), resp.body,
                    "failed to read response", resp.status)
    ELSE ReadResult(off, len, Len(ReadFull(resp.body, len)),
                    ReadFull(resp.body, len), None, resp.status)

(* `if n > 0 && n <= r.cacheSize { ... }`                                  *)
UpdateCache(r, read) ==
    IF read.err = None /\ read.n > 0 /\ read.n <= cacheSize
    THEN [r EXCEPT !.cacheStart = read.off, !.cacheEnd = read.off + read.n,
                   !.cacheData = read.data, !.cacheValid = TRUE]
    ELSE r

(* The HEAD of NewRemoteReader as sent.                                    *)
HeadRequest(resp) ==
    Request("HEAD", ClientAuth, resp.kind, resp.status, resp.acceptRanges,
            resp.contentLength)

Open ==
    /\ opts.op = "read"
    /\ rd.state = "none"
    /\ \E resp \in HeadResponses(blob) :
          /\ rd' = NewRemoteReader(resp)
          /\ wire' = HeadRequest(resp)
    /\ UNCHANGED <<orchVars, blob, reqs, concVars, callVars, pureVars>>

(* RemoteReader.ReadAt, step by step.  A call takes the read lock, tests   *)
(* the cache and releases the lock; on a miss it sends the ranged GET and  *)
(* reads the body with no lock held, and then takes the write lock for     *)
(* the cache update.  Between any two of these steps another goroutine's   *)
(* call on the same reader can run.  http.NewRequest gets the method GET   *)
(* and the URL the HEAD of NewRemoteReader was sent to, and does not fail. *)

(* The goroutine left ReadAt with the result `read`.                       *)
ReturnedRead(read) ==
    [pc |-> "idle", read |-> [read EXCEPT !.called = TRUE], cacheOffset |-> 0]

(* The goroutine is inside ReadAt at `pc` with p, off and n as in `read`.  *)
InReadAt(pc_, read, cacheOffset) ==
    [pc |-> pc_, read |-> [read EXCEPT !.called = FALSE],
     cacheOffset |-> cacheOffset]

(* RLock goes through when no writer holds the lock.                       *)
CanRLock(mu) == mu.writer = 0

(* Lock goes through when nobody holds the lock.                           *)
CanLock(mu) == mu.writer = 0 /\ mu.readers = {}

(* Faulty variant: the test `off >= r.size` is missing.                    *)
OutOfRangeBelow(r, off) == off < 0

(* `off < 0`, `off >= r.size`: the tests ReadAt returns on at once.        *)
OutOfRange(r, off) == off < 0 \/ off >= r.size

(* Goroutine g enters ReadAt(p, off) with len(p) = len on the open reader; *)
(* the tests of off return at once.                                        *)
CallWith(g, len, off) ==
    /\ rd.state = "open"
    /\ gor[g].pc = "idle"
    /\ gor' = [gor EXCEPT ![g] =
                 IF OutOfRange(rd, off)
                 THEN ReturnedRead(ReadAtLocal(rd, len, off))
                 ELSE InReadAt("rlock", ReadResult(off, len, 0, <<>>, None, 0), 0)]

(* ReadAt is called with any buffer and any offset.                        *)
Call(g) ==
    /\ opts.op \in {"read", "conc"}
    /\ \E len \in 0..MaxRead, off \in -1..MaxBlob : CallWith(g, len, off)
    /\ UNCHANGED <<orchVars, rd, blob, reqs, wire, cacheMu, installs,
                   callVars, pureVars>>

(* `r.cacheMu.RLock()`                                                     *)
RLock(g) ==
    /\ gor[g].pc = "rlock"
    /\ CanRLock(cacheMu)
    /\ cacheMu' = [cacheMu EXCEPT !.readers = @ \cup {g}]
    /\ gor' = [gor EXCEPT ![g].pc = "test"]
    /\ UNCHANGED <<orchVars, rd, blob, reqs, wire, installs, callVars,
                   pureVars>>

(* The cache test: on a hit cacheOffset is computed, on a miss the read   *)
(* lock is released.                                                       *)
TestCache(g) ==
    /\ gor[g].pc = "test"
    /\ IF CacheHit(rd, gor[g].read.len, gor[g].read.off)
       THEN /\ gor' = [gor EXCEPT ![g].pc = "copy",
                                  ![g].cacheOffset = gor[g].read.off - rd.cacheStart]
            /\ cacheMu' = cacheMu
       ELSE /\ gor' = [gor EXCEPT ![g].pc = "request"]
            /\ cacheMu' = [cacheMu EXCEPT !.readers = @ \ {g}]
    /\ UNCHANGED <<orchVars, rd, blob, reqs, wire, installs, callVars,
                   pureVars>>

(* The bytes cacheOffset..cacheOffset+len(p) of the 1 MiB buffer           *)
(* cacheData, of which the model keeps the part written last: the bytes    *)
(* behind it are whatever the buffer held.                                 *)
CacheSlice(r, cacheOffset, len) ==
    [k \in 1..len |->
        IF cacheOffset + k <= Len(r.cacheData)
        THEN r.cacheData[cacheOffset + k] ELSE "stale"]

(* `n = copy(p, r.cacheData[...])`, RUnlock, return.                       *)
CopyOut(g) ==
    /\ gor[g].pc = "copy"
    /\ gor' = [gor EXCEPT ![g] =
                 ReturnedRead(ReadResult(gor[g].read.off, gor[g].read.len,
                                         gor[g].read.len,
                                         CacheSlice(rd, gor[g].cacheOffset,
                                                    gor[g].read.len),
                                         None, 0))]
    /\ cacheMu' = [cacheMu EXCEPT !.readers = @ \ {g}]
    /\ UNCHANGED <<orchVars, rd, blob, reqs, wire, installs, callVars,
                   pureVars>>

(* The ranged GET and the read of its body; a result that is not cached    *)
(* is returned.                                                            *)
Fetch(g) ==
    /\ gor[g].pc = "request"
    /\ reqs < MaxReqs
    /\ \E resp \in GetResponses(blob, gor[g].read.off,
                                RangeEnd(rd, gor[g].read.len, gor[g].read.off)) :
          LET read == ReadAtRemote(gor[g].read.len, gor[g].read.off, resp)
          IN  gor' = [gor EXCEPT ![g] =
                        IF read.err = None /\ read.n > 0 /\ read.n <= cacheSize
                        THEN InReadAt("lock", read, 0)
                        ELSE ReturnedRead(read)]
    /\ reqs' = reqs + 1
    /\ UNCHANGED <<orchVars, rd, blob, wire, cacheMu, installs, callVars,
                   pureVars>>

(* `r.cacheMu.Lock()`                                                      *)
Lock(g) ==
    /\ gor[g].pc = "lock"
    /\ CanLock(cacheMu)
    /\ cacheMu' = [cacheMu EXCEPT !.writer = g]
    /\ gor' = [gor EXCEPT ![g].pc = "bounds"]
    /\ UNCHANGED <<orchVars, rd, blob, reqs, wire, installs, callVars,
                   pureVars>>

(* `r.cacheStart = off; r.cacheEnd = off + int64(n)`                       *)
WriteBounds(g) ==
    /\ gor[g].pc = "bounds"
    /\ rd' = [rd EXCEPT !.cacheStart = gor[g].read.off,
                        !.cacheEnd = gor[g].read.off + gor[g].read.n]
    /\ gor' = [gor EXCEPT ![g].pc = "data"]
    /\ UNCHANGED <<orchVars, blob, reqs, wire, cacheMu, installs, callVars,
                   pureVars>>

(* `copy(r.cacheData, p[:n]); r.cacheValid = true`, Unlock, return.        *)
WriteData(g) ==
    /\ gor[g].pc = "data"
    /\ rd' = [rd EXCEPT !.cacheData = gor[g].read.data, !.cacheValid = TRUE]
    /\ cacheMu' = [cacheMu EXCEPT !.writer = 0]
    /\ installs' = IF Len(gor) = 1 THEN installs
                   ELSE installs \cup
                          {[start |-> gor[g].read.off,
                            end |-> gor[g].read.off + gor[g].read.n,
                            data |-> gor[g].read.data]}
    /\ gor' = [gor EXCEPT ![g] = ReturnedRead(gor[g].read)]
    /\ UNCHANGED <<orchVars, blob, reqs, wire, callVars, pureVars>>

(* One step of goroutine g inside ReadAt.                                  *)
InsideReadAt(g) ==
    \/ RLock(g)
    \/ TestCache(g)
    \/ CopyOut(g)
    \/ Fetch(g)
    \/ Lock(g)
    \/ WriteBounds(g)
    \/ WriteData(g)

(* One step of goroutine g's call of ReadAt.                               *)
ReadAt(g) == Call(g) \/ InsideReadAt(g)

InitReader ==
    /\ layers = <<>>
    /\ sociIndex = FALSE
    /\ opts = [op |-> "read", FilePath |-> NoLink, ForceFormat |-> FormatUnknown]
    /\ pc = "done"
    /\ li = 0
    /\ format = FormatUnknown
    /\ stage = 1
    /\ attempts = NoAttempts
    /\ visited = <<>>
    /\ out = [dir |-> FALSE, file |-> NoFile]
    /\ result = NoResult
    /\ allFiles = <<>>
    /\ rd = NoReader
    /\ blob \in Blobs
    /\ reqs = 0
    /\ wire = NoRequest
    /\ cacheMu = Unlocked
    /\ gor = OneCaller
    /\ installs = {}
    /\ keychain \in Keychains
    /\ IdleRest

NextReader ==
    \/ Open
    \/ \E g \in Callers : ReadAt(g)

SpecReader == InitReader /\ [][NextReader]_vars

--------------------------------------------------------------------------
(* The two canonicalisations applied on their own, once and to their own   *)
(* result, to every path of up to MaxPath characters.                      *)

MaxPath == 3

PathChars == {".", "/", "a"}

Paths == UNION {[1..n -> PathChars] : n \in 0..MaxPath}

(* The state of a run that applies one function to one input.              *)
PureCall(a) ==
    /\ layers = <<>>
    /\ sociIndex = FALSE
    /\ opts = [op |-> a.fn, FilePath |-> NoLink, ForceFormat |-> FormatUnknown]
    /\ pc = "done"
    /\ li = 0
    /\ format = FormatUnknown
    /\ stage = 1
    /\ attempts = NoAttempts
    /\ visited = <<>>
    /\ out = [dir |-> FALSE, file |-> NoFile]
    /\ result = NoResult
    /\ allFiles = <<>>
    /\ IdleReader
    /\ keychain = "anonymous"
    /\ cancelled = FALSE
    /\ arg = a
    /\ ret = NoRet

Twice(fn, once, twice) == [fn |-> fn, once |-> once, twice |-> twice]

CanonEntry ==
    /\ arg.fn = "canon"
    /\ ret = NoRet
    /\ ret' = Twice("normalizedEntry", normalizedEntry(arg.x),
                    normalizedEntry(normalizedEntry(arg.x)))
    /\ UNCHANGED <<orchVars, readerVars, callVars, arg>>

CanonDisplay ==
    /\ arg.fn = "canon"
    /\ ret = NoRet
    /\ ret' = Twice("NormalizeForDisplay", NormalizeForDisplay(arg.x),
                    NormalizeForDisplay(NormalizeForDisplay(arg.x)))
    /\ UNCHANGED <<orchVars, readerVars, callVars, arg>>

InitCanon == \E x \in Paths : PureCall([fn |-> "canon", x |-> x])

NextCanon ==
    \/ CanonEntry
    \/ CanonDisplay

SpecCanon == InitCanon /\ [][NextCanon]_vars

--------------------------------------------------------------------------
(* The streaming ExtractFile of the standard and of the zstd extractor on  *)
(* one layer: archives of up to MaxWalk entries of every type, named as    *)
(* the request, as the request behind "./" or "/", or otherwise; the       *)
(* request is written "a", "/a" or "./a".                                  *)

MaxWalk == 2

WalkNames == {<<"a">>, <<".", "/", "a">>, <<"/", "a">>, <<"b">>}

WalkEntries ==
    {Entry(n, t) : n \in WalkNames, t \in {TypeReg, TypeSymlink, TypeLink, TypeDir}}

WalkEntryLists == UNION {[1..n -> WalkEntries] : n \in 0..MaxWalk}

WalkLayers ==
    [mediaType : {MTOciGzip, MTOciZstd}, size : LayerSizes, entries : WalkEntryLists]

WalkTargets == {<<"/", "a">>, <<"a">>, <<".", "/", "a">>}

WalkStandard ==
    /\ arg.fn = "walk"
    /\ ret = NoRet
    /\ ret' = [fn |-> FormatStandard,
               outcome |-> StandardExtractFile(arg.layer, arg.targetPath, arg.env)]
    /\ UNCHANGED <<orchVars, readerVars, callVars, arg>>

WalkZstd ==
    /\ arg.fn = "walk"
    /\ ret = NoRet
    /\ ret' = [fn |-> FormatZstd,
               outcome |-> ZstdExtractFile(arg.layer, arg.targetPath, arg.env)]
    /\ UNCHANGED <<orchVars, readerVars, callVars, arg>>

InitWalk ==
    \E layer \in WalkLayers, targetPath \in WalkTargets, env \in StreamEnvs :
        PureCall([fn |-> "walk", layer |-> layer, targetPath |-> targetPath,
                  env |-> env])

NextWalk ==
    \/ WalkStandard
    \/ WalkZstd

SpecWalk == InitWalk /\ [][NextWalk]_vars

--------------------------------------------------------------------------
(* Extract and List side by side: Extract with the request "/a", List on   *)
(* the images Extract is run on.                                           *)

InitListSmall == InitListOn(ExtractLayers)

InitCalls == InitExtract({<<"/", "a">>}) \/ InitListSmall

NextCalls == Next \/ NextList

SpecCalls == InitCalls /\ [][NextCalls]_vars

--------------------------------------------------------------------------
(* The context of a running Extract, List or reader is cancelled.  ctx is  *)
(* handed down to every helper and extractor, and none of them reads       *)
(* ctx.Done() or ctx.Err() or builds a request from it: the cancellation   *)
(* changes the context and nothing else.                                   *)

Cancel ==
    /\ ~cancelled
    /\ cancelled' = TRUE
    /\ UNCHANGED <<orchVars, readerVars, keychain, pureVars>>

InitCancel == Init \/ InitListSmall \/ InitReader

NextCancel ==
    \/ Cancel
    \/ Next
    \/ NextList
    \/ NextReader

SpecCancel == InitCancel /\ [][NextCancel]_vars

--------------------------------------------------------------------------
(* Vocabulary of the properties of Extract.                                *)

LayerNos == 1..Len(layers)

Max(set) == CHOOSE m \in set : \A x \in set : x <= m

(* The entry of layer i the streaming walk stops at for the request.       *)
FirstMatch(i) == MatchIndex(layers[i].entries, opts.FilePath)

(* The first entry of layer i whose display-canonical name is the          *)
(* display-canonical request.                                              *)
CanonicalMatch(i) ==
    LET hits == {k \in 1..Len(layers[i].entries) :
                   NormalizeForDisplay(layers[i].entries[k].name)
                     = NormalizeForDisplay(opts.FilePath)}
    IN  IF hits = {} THEN 0 ELSE CHOOSE k \in hits : \A j \in hits : k <= j

(* The layers in which the request is a regular file, by canonical name.   *)
SCanonical == {i \in LayerNos :
                 /\ CanonicalMatch(i) # 0
                 /\ layers[i].entries[CanonicalMatch(i)].typeflag = TypeReg}

(* The complete bytes of entry k of layer i at OutputPath.                 *)
Bytes(i, k) == [layer |-> i, entry |-> k, complete |-> TRUE]

VisitedLayers == {visited[k].layer : k \in 1..Len(visited)}

KindsAt(j) == UNION {visited[k].kinds : k \in {x \in 1..Len(visited) : visited[x].layer = j}}

TriedAt(j) == visited[CHOOSE k \in 1..Len(visited) : visited[k].layer = j].tried

(* Every outcome kind the call has seen so far.                            *)
KindsSeen == attempts.kinds \cup UNION {visited[k].kinds : k \in 1..Len(visited)}

Succeeded == pc = "done" /\ result.err = None

(* C1, as stated, read in its favour: in auto mode, and when no attempt of *)
(* the call ended in a hard error (network, reader, unreadable blob),      *)
(* whenever the request is by canonical name a regular file in a non-empty *)
(* set of layers, Extract succeeds and the output holds the bytes of the   *)
(* highest such layer.                                                     *)
C1_OverlayHighestWins ==
    ( /\ pc = "done"
      /\ opts.ForceFormat = FormatUnknown
      /\ "harderr" \notin KindsSeen
      /\ SCanonical # {} ) =>
        /\ result.err = None
        /\ out.file = Bytes(Max(SCanonical), CanonicalMatch(Max(SCanonical)))

(* C2: once a strategy attempt reports success on layer i, Extract has     *)
(* returned success: that attempt is the last one of the call, no layer    *)
(* below i has been entered, and the output file is the one that attempt   *)
(* wrote.                                                                  *)
C2_EarlyExit ==
    "success" \in KindsSeen =>
        /\ Succeeded
        /\ attempts.last.kind = "success"
        /\ attempts.last.layer = li
        /\ attempts.tried[Len(attempts.tried)] = attempts.last.strategy
        /\ VisitedLayers = {j \in LayerNos : j > li}
        /\ out.file = Bytes(li, out.file.entry)

(* Extract returned on the first strategy of a chain of five, on the       *)
(* upper of two layers.                                                    *)
C2_Witness ==
    /\ Succeeded
    /\ li = 2
    /\ format = FormatUnknown
    /\ attempts.tried = <<FormatEStargz>>

(* C3: Extract returns "not found in any layer" exactly when no strategy   *)
(* succeeded on any layer, and then every layer has been examined.         *)
C3_NotFound ==
    /\ pc = "done" => (result.err = ErrNotFound <=> "success" \notin KindsSeen)
    /\ (pc = "done" /\ result.err = ErrNotFound) => VisitedLayers = LayerNos

(* Not found after two layers were read and held no such entry.            *)
C3_Witness ==
    /\ pc = "done"
    /\ result.err = ErrNotFound
    /\ Len(visited) = 2
    /\ \A j \in LayerNos : KindsAt(j) = {"absent"}

NotSoci(strategy) == strategy # FormatSOCI

(* C4, as stated: in auto mode every layer the loop leaves got the whole   *)
(* chain estargz, (SOCI,) zstd:chunked, zstd, standard, whatever the       *)
(* detector reported.                                                      *)
C4_DetectorAdvisory ==
    opts.ForceFormat = FormatUnknown =>
        \A j \in VisitedLayers :
            SelectSeq(TriedAt(j), NotSoci)
              = <<FormatEStargz, FormatZstdChunked, FormatZstd, FormatStandard>>

(* The topmost layer holding an entry the request matches.                 *)
ResolvedLayer == Max({i \in LayerNos : FirstMatch(i) # 0})

ResolvedEntry == layers[ResolvedLayer].entries[FirstMatch(ResolvedLayer)]

(* C6, as stated: when the entry the request resolves to is not a regular  *)
(* file and an extractor has reported so, Extract fails, its error names   *)
(* the request path and the link target, and no output file exists.        *)
C6_NonRegularFails ==
    ( /\ pc = "done"
      /\ {i \in LayerNos : FirstMatch(i) # 0} # {}
      /\ ResolvedEntry.typeflag # TypeReg
      /\ "nonregular" \in KindsAt(ResolvedLayer) )
    => /\ result.err # None
       /\ result.path = opts.FilePath
       /\ result.link = ResolvedEntry.linkname
       /\ out.file = NoFile

ErrIO == "local I/O error"

(* C7, as stated: once a strategy has met a local I/O error, Extract has   *)
(* returned that error and nothing was attempted after it.                 *)
C7_IOErrorFatal ==
    "ioerr" \in KindsSeen =>
        /\ pc = "done"
        /\ result.err = ErrIO
        /\ attempts.last.kind = "ioerr"

--------------------------------------------------------------------------
(* Properties of List.                                                     *)

Range(seq) == {seq[k] : k \in 1..Len(seq)}

(* Every strategy List has attempted so far, on any layer.                 *)
StrategiesTried ==
    Range(attempts.tried) \cup UNION {Range(visited[k].tried) : k \in 1..Len(visited)}

(* C5, as stated: with a forced format, no strategy other than the forced  *)
(* one is attempted on any layer.                                          *)
C5_ForcedOnly ==
    opts.ForceFormat # FormatUnknown => StrategiesTried \subseteq {opts.ForceFormat}

(* Every layer was listed without error.                                   *)
AllListed ==
    /\ VisitedLayers = LayerNos
    /\ \A k \in 1..Len(visited) : "listed" \in visited[k].kinds

(* The display-canonical names of the regular files of the image.          *)
RegularPaths ==
    UNION {Range(NormalizedNames(layers[i].entries)) : i \in LayerNos}

(* C8, as stated: when every layer was listed, List returns every          *)
(* regular-file path of the image, and each of them once.                  *)
C8_ListMerge ==
    (pc = "done" /\ AllListed) =>
        /\ \A i, j \in 1..Len(allFiles) : i # j => allFiles[i] # allFiles[j]
        /\ {NormalizeForDisplay(f) : f \in Range(allFiles)} = RegularPaths

(* One leading "./" stripped, then a leading "/".                          *)
DisplayCanonical(path) == HasPrefix(path, Slash) /\ ~HasPrefix(path, DotSlash)

(* C9, as stated: every path List returns is display-canonical.            *)
C9_ListCanonical ==
    pc = "done" => \A k \in 1..Len(allFiles) : DisplayCanonical(allFiles[k])

--------------------------------------------------------------------------
(* Properties of the RemoteReader.                                         *)

IsPrefix(p, seq) == Len(p) <= Len(seq) /\ SubSeq(seq, 1, Len(p)) = p

(* The call of the reader's one caller: p and off while it is inside       *)
(* ReadAt, and what ReadAt returned once `called`.                         *)
last == gor[1].read

(* C10, as stated: a ReadAt at an offset inside the blob with a non-empty  *)
(* buffer that was answered with 206 or 200 returns a prefix of the        *)
(* blob's bytes from that offset on.                                       *)
C10_RangeCorrect ==
    ( /\ last.called
      /\ last.err = None
      /\ last.off >= 0 /\ last.off < rd.size
      /\ last.len > 0 )
    => IsPrefix(last.data,
                SubSeq(blob, last.off + 1,
                       last.off + Min(last.len, rd.size - last.off)))

(* The ReadAt sent its ranged GET, `bytes=off-end`: it returned the error  *)
(* of the request or handled a response.                                   *)
Sent(read) ==
    read.called /\ (read.status # 0 \/ read.err = "request failed")

(* C11, as stated: the reader never sends a GET whose range starts at an   *)
(* offset >= size (or below 0), and no ReadAt returns a byte count greater *)
(* than size - offset (none at all at an offset outside the blob).         *)
C11_RangeBounded ==
    /\ Sent(last) => (last.off >= 0 /\ last.off < rd.size)
    /\ last.called =>
         IF last.off >= 0 /\ last.off < rd.size
         THEN last.n <= rd.size - last.off
         ELSE last.n = 0

(* The last ReadAt was served from the cache.                              *)
ServedFromCache ==
    last.called /\ last.err = None /\ last.status = 0

(* What a reader without a cache can return for the call: the result of    *)
(* ReadAt for some answer of the server to the ranged GET.                 *)
UncachedResults(r, len, off) ==
    {ReadAtRemote(len, off, resp) :
        resp \in GetResponses(blob, off, RangeEnd(r, len, off))}

(* C12, as stated: cache transparency.  A ReadAt served from the cache     *)
(* returns a byte count, bytes and error that the reader without a cache,  *)
(* which sends the ranged GET, returns for the same call.                  *)
C12_CacheTransparent ==
    ServedFromCache =>
        \E u \in UncachedResults(rd, last.len, last.off) :
            /\ u.n = last.n
            /\ u.data = last.data
            /\ u.err = last.err

(* C13: a ReadAt at an offset >= size returns zero bytes and io.EOF, one   *)
(* at an offset < 0 returns zero bytes and the negative-offset error, and  *)
(* in both cases no request is sent and the cache fields stay as they are. *)
C13_OutOfRange ==
    [][(last'.called /\ (last'.off < 0 \/ last'.off >= rd.size)) =>
          /\ last'.n = 0
          /\ last'.data = <<>>
          /\ last'.err = (IF last'.off < 0 THEN "negative offset" ELSE "EOF")
          /\ reqs' = reqs
          /\ rd' = rd]_vars

(* A read at offset = size on a reader with a valid cache, after a request. *)
C13_Witness ==
    /\ last.called
    /\ last.off = rd.size
    /\ last.len > 0
    /\ last.err = "EOF"
    /\ rd.cacheValid
    /\ reqs > 0

(* C14, as stated: construction succeeds exactly when the HEAD response    *)
(* has a 2xx status and Accept-Ranges: bytes.                              *)
C14_Construction2xx ==
    wire.method = "HEAD" =>
        (rd.state = "open" <=>
            /\ wire.kind = "response"
            /\ wire.status >= 200 /\ wire.status < 300
            /\ wire.acceptRanges = "bytes")

(* C14, amended: construction succeeds exactly when the HEAD response has  *)
(* status 200 and Accept-Ranges: bytes, and then size is the response's    *)
(* Content-Length; otherwise there is no reader, and no GET is ever sent.  *)
C14_Construction ==
    /\ wire.method = "HEAD" =>
         /\ rd.state = "open" <=>
              /\ wire.kind = "response"
              /\ wire.status = StatusOK
              /\ wire.acceptRanges = "bytes"
         /\ rd.state = "open" => rd.size = wire.contentLength
         /\ rd.state # "open" => rd.state = "failed"
    /\ rd.state = "failed" => (reqs = 0 /\ wire.method = "HEAD" /\ ~Sent(last))
    /\ rd.state = "none" => wire = NoRequest

(* A construction that failed on a 200 response without Accept-Ranges.     *)
C14_Witness ==
    /\ rd.state = "failed"
    /\ wire.method = "HEAD"
    /\ wire.kind = "response"
    /\ wire.status = StatusOK
    /\ wire.acceptRanges # "bytes"

(* C16, as stated: every HEAD and every ranged GET of the reader carries   *)
(* the credentials the manifest was fetched with.                          *)
C16_BlobRequestsAuthenticated ==
    keychain # "anonymous" =>
        /\ wire.method = "HEAD" => wire.auth = keychain
        /\ Sent(last) => rd.client = keychain

--------------------------------------------------------------------------
(* Properties of a call under cancellation, and of the order of a call.    *)

(* The step enters a layer, attempts a strategy, or sends a ranged GET.    *)
StartsLayer == pc = "layer" /\ pc' = "try"

StartsStrategy ==
    \/ Len(attempts'.tried) > Len(attempts.tried)
    \/ opts.op = "list" /\ Len(visited') > Len(visited)

SendsRequest == reqs' > reqs

(* C15, as stated: once the context is cancelled, the call starts no       *)
(* further layer, no further strategy and no further range request.        *)
C15_CancelStops ==
    [][cancelled => ~(StartsLayer \/ StartsStrategy \/ SendsRequest)]_vars

(* The streaming strategy that decompresses the blob of a layer.           *)
StreamOf(layer) == IF Compression(layer) = "zstd" THEN FormatZstd ELSE FormatStandard

(* C19: in auto mode a hard error in a strategy attempt never ends the     *)
(* call.  Right after it the call is still inside extractFromLayer on the  *)
(* same layer and has returned nothing; a layer the loop leaves after a    *)
(* hard error has had its streaming strategy attempted, and the chain of   *)
(* attempts on it ran to that streaming strategy; and a call that saw a    *)
(* hard error and no success has gone through every layer before it        *)
(* returned.                                                               *)
C19_HardErrorsNotFatal ==
    opts.ForceFormat = FormatUnknown =>
        /\ attempts.last.kind = "harderr" =>
              (pc = "try" /\ result = NoResult /\ attempts.last.layer = li)
        /\ \A j \in VisitedLayers :
              "harderr" \in KindsAt(j) =>
                  /\ StreamOf(layers[j]) \in Range(TriedAt(j))
                  /\ TriedAt(j)[Len(TriedAt(j))] = StreamOf(layers[j])
        /\ (pc = "done" /\ "harderr" \in KindsSeen /\ "success" \notin KindsSeen)
              => VisitedLayers = LayerNos

(* After hard errors on the upper layer and a hard error of zstd:chunked   *)
(* on the lower one, the zstd stream of the lower layer succeeded.         *)
C19_Witness ==
    /\ opts.ForceFormat = FormatUnknown
    /\ Succeeded
    /\ li = 1
    /\ "harderr" \in KindsAt(2)
    /\ attempts.tried = <<FormatZstdChunked, FormatZstd>>
    /\ "harderr" \in attempts.kinds

(* The place of a strategy in the chain.                                   *)
StageOf(strategy) == CHOOSE t \in 1..LastStage : StrategyOf(t) = strategy

InChainOrder(tried) ==
    \A i, j \in 1..Len(tried) : i < j => StageOf(tried[i]) < StageOf(tried[j])

(* C20: Extract and List go through the layers in the order n, n-1, ...,   *)
(* 1 (n-1 ... 0 in the source's indices), each at most once, and on each   *)
(* layer attempt strategies in the order eStargz, SOCI, zstd:chunked,      *)
(* zstd, standard, each at most once and one at a time.                    *)
C20_Ordering ==
    /\ \A k \in 1..Len(visited) :
          /\ visited[k].layer = Len(layers) - k + 1
          /\ InChainOrder(visited[k].tried)
    /\ InChainOrder(attempts.tried)
    /\ pc # "done" => li = Len(layers) - Len(visited)
    /\ attempts.tried # <<>> =>
          /\ li = Len(layers) - Len(visited)
          /\ attempts.last.layer = li
          /\ attempts.last.strategy = attempts.tried[Len(attempts.tried)]

(* Both layers were gone through, the upper one with three strategies.     *)
C20_Witness ==
    /\ pc = "done"
    /\ Len(visited) = 2
    /\ visited[1].layer = 2
    /\ visited[2].layer = 1
    /\ Len(visited[1].tried) >= 3

--------------------------------------------------------------------------
(* Properties of the canonicalisations and of the streaming walk.          *)

(* C17, as stated: both canonicalisations are idempotent: applied to       *)
(* their own result they return it unchanged.                              *)
C17_CanonIdempotent ==
    ret.fn \in {"normalizedEntry", "NormalizeForDisplay"} => ret.twice = ret.once

(* The entries of the walked archive whose canonical name is the           *)
(* canonical request.                                                      *)
WalkMatches ==
    {k \in 1..Len(arg.layer.entries) :
        normalizedEntry(arg.layer.entries[k].name) = normalizedTarget(arg.targetPath)}

WalkRegular(k) == arg.layer.entries[k].typeflag = TypeReg

(* The walk's extractor reads the blob and the local file operations       *)
(* succeed.                                                                *)
WalkReads ==
    /\ arg.env.net = "ok"
    /\ Compression(arg.layer) = (IF ret.fn = FormatZstd THEN "zstd" ELSE "gzip")

WalkWrites == arg.env.io = "ok"

Walked == ret.fn \in {FormatStandard, FormatZstd}

(* The entries of the walked archive that match the request when the       *)
(* canonicalisation of entry names is applied to both sides.               *)
WalkMatchesSymmetric ==
    {k \in 1..Len(arg.layer.entries) :
        normalizedEntry(arg.layer.entries[k].name) = normalizedEntry(arg.targetPath)}

(* C18, as stated, read in its favour: the extractor reads the blob, the   *)
(* local file operations succeed, and the regular-file entry is the first  *)
(* entry, in archive order, whose canonical name equals the canonical      *)
(* request.  Then ExtractFile succeeds and the output holds that entry's   *)
(* bytes; at the end of the archive with no entry of that canonical name   *)
(* it returns not found; and directory and file are created only for a     *)
(* target so identified.                                                   *)
C18_StreamExtract ==
    (Walked /\ WalkReads /\ WalkWrites) =>
        LET first == IF WalkMatchesSymmetric = {} THEN 0
                     ELSE CHOOSE k \in WalkMatchesSymmetric :
                              \A j \in WalkMatchesSymmetric : k <= j
            o == ret.outcome
        IN  /\ (first # 0 /\ WalkRegular(first)) =>
                  (o.kind = "success" /\ o.effect = "full" /\ o.entry = first)
            /\ first = 0 => (o.kind = "absent" /\ o.effect = "none")
            /\ o.effect # "none" =>
                  (first # 0 /\ WalkRegular(first) /\ o.entry = first)

--------------------------------------------------------------------------
(* Further properties of the RemoteReader.                                 *)

(* C21, as stated: whenever the reader's cache is valid and no call is     *)
(* replacing it under the write lock, its bounds lie inside the blob,      *)
(* 0 <= cacheStart < cacheEnd <= size, it holds at most cacheSize bytes,   *)
(* and the bytes are those of the blob at cacheStart..cacheEnd-1.          *)
C21_CacheInvariant ==
    (rd.state = "open" /\ rd.cacheValid /\ cacheMu.writer = 0) =>
        /\ 0 <= rd.cacheStart
        /\ rd.cacheStart < rd.cacheEnd
        /\ rd.cacheEnd <= rd.size
        /\ rd.cacheEnd - rd.cacheStart <= cacheSize
        /\ rd.cacheData = SubSeq(blob, rd.cacheStart + 1, rd.cacheEnd)

(* C22, as stated: a ReadAt with a zero-length buffer at an offset inside  *)
(* the blob returns 0 bytes and sends no request, whatever the cache holds. *)
C22_EmptyReadLocal ==
    ( /\ last.called
      /\ last.len = 0
      /\ last.off >= 0 /\ last.off < rd.size )
    => (last.n = 0 /\ ~Sent(last))

--------------------------------------------------------------------------
(* DetectFormat applied on its own to one layer: every media type, sizes   *)
(* on both sides of the footer size, and blobs that do or do not end with  *)
(* the eStargz footer magic.                                               *)

DetectMediaTypes ==
    {MTOciGzip, MTDockerGzip, MTOciZstd, MTDockerZstd, MTForeign, MTError}

DetectSizes == {0, 1, FooterSize - 1, FooterSize, FooterSize + 1, 64, 128}

(* A blob shorter than the footer cannot end with it.                      *)
DetectLayers ==
    {l \in [mediaType : DetectMediaTypes, size : DetectSizes, footer : BOOLEAN,
            entries : {<<>>}] :
        l.footer => l.size >= FooterSize}

(* The bytes checkEStargzFooter reads from the stream it opened: none on   *)
(* either side of the size test.                                           *)
FooterBytesRead(layer) ==
    IF layer.size < FooterSize THEN 0 ELSE 0

Detect ==
    /\ arg.fn = "detect"
    /\ ret = NoRet
    /\ ret' = [fn |-> "DetectFormat",
               format |-> DetectFormat(arg.layer).format,
               err |-> DetectFormat(arg.layer).err,
               bytesRead |->
                   IF arg.layer.mediaType \in {MTError, MTOciZstd, MTDockerZstd}
                   THEN 0 ELSE FooterBytesRead(arg.layer)]
    /\ UNCHANGED <<orchVars, readerVars, callVars, arg>>

InitDetect == \E layer \in DetectLayers : PureCall([fn |-> "detect", layer |-> layer])

NextDetect == Detect

SpecDetect == InitDetect /\ [][NextDetect]_vars

(* C23, as stated: DetectFormat answers zstd for the two zstd media types, *)
(* for a gzip media type estargz when the layer has at least 47 bytes and  *)
(* ends with the eStargz footer magic and standard otherwise, unknown for  *)
(* any other media type without the footer, and for a layer of fewer than  *)
(* 47 bytes a format other than estargz without reading layer bytes.       *)
C23_DetectorDecision ==
    ret.fn = "DetectFormat" =>
        LET l == arg.layer
            hasFooter == l.size >= FooterSize /\ l.footer
        IN  /\ l.mediaType \in {MTOciZstd, MTDockerZstd} => ret.format = FormatZstd
            /\ l.mediaType \in {MTOciGzip, MTDockerGzip} =>
                 ret.format = (IF hasFooter THEN FormatEStargz ELSE FormatStandard)
            /\ (l.mediaType = MTForeign /\ ~hasFooter) => ret.format = FormatUnknown
            /\ l.size < FooterSize =>
                 (ret.format # FormatEStargz /\ ret.bytesRead = 0)

--------------------------------------------------------------------------
(* Further properties of the streaming walk.                               *)

(* C24, as stated: the streaming extractors match the request against an   *)
(* entry name exactly when the two are equal after the same archive-name   *)
(* canonicalisation: the walk finds an entry if and only if some entry's   *)
(* canonical name is the canonical request, and the entry it decides on is *)
(* such an entry.                                                          *)
C24_MatchSymmetric ==
    (Walked /\ WalkReads) =>
        /\ (ret.outcome.kind # "absent") <=> (WalkMatchesSymmetric # {})
        /\ ret.outcome.kind # "absent" => ret.outcome.entry \in WalkMatchesSymmetric

--------------------------------------------------------------------------
(* Goroutines calling ReadAt on one RemoteReader at the same time.  Each   *)
(* goroutine runs the steps of ReadAt, and between any two of them another *)
(* goroutine can run.                                                      *)

MaxProcs == 2

Procs == 1..MaxProcs

(* The reader NewRemoteReader returns for the blob, and goroutines that    *)
(* have not called it yet.                                                 *)
InitConc ==
    /\ layers = <<>>
    /\ sociIndex = FALSE
    /\ opts = [op |-> "conc", FilePath |-> NoLink, ForceFormat |-> FormatUnknown]
    /\ pc = "done"
    /\ li = 0
    /\ format = FormatUnknown
    /\ stage = 1
    /\ attempts = NoAttempts
    /\ visited = <<>>
    /\ out = [dir |-> FALSE, file |-> NoFile]
    /\ result = NoResult
    /\ allFiles = <<>>
    /\ blob \in Blobs
    /\ \E resp \in HeadResponses(blob) :
          /\ resp.contentLength = Len(blob)
          /\ NewRemoteReader(resp).state = "open"
          /\ rd = NewRemoteReader(resp)
          /\ wire = HeadRequest(resp)
    /\ reqs = 0
    /\ cacheMu = Unlocked
    /\ gor = [g \in Procs |-> NoCall]
    /\ installs = {}
    /\ keychain = "anonymous"
    /\ IdleRest

NextConc == \E g \in Procs : ReadAt(g)

SpecConc == InitConc /\ [][NextConc]_vars

(* Properties of concurrent ReadAt calls.                                  *)

(* The calls that returned bytes of the blob's range.                      *)
ReturnedInRange(g) ==
    /\ gor[g].pc = "idle"
    /\ gor[g].read.called
    /\ gor[g].read.err = None
    /\ gor[g].read.off >= 0 /\ gor[g].read.off < rd.size

(* Every call returned bytes of the blob at its own offset.                *)
ReturnsOwnBytes ==
    \A g \in DOMAIN gor :
        ReturnedInRange(g) =>
            IsPrefix(gor[g].read.data,
                     SubSeq(blob, gor[g].read.off + 1,
                            gor[g].read.off
                              + Min(gor[g].read.len, rd.size - gor[g].read.off)))

(* The cache fields are read under the read lock only and written under    *)
(* the write lock only, and the write lock excludes every other holder.    *)
CacheUnderLock ==
    /\ \A g \in DOMAIN gor :
          /\ gor[g].pc \in {"test", "copy"} <=> g \in cacheMu.readers
          /\ gor[g].pc \in {"bounds", "data"} <=> cacheMu.writer = g
    /\ cacheMu.writer # 0 => cacheMu.readers = {}

(* Every call served from the cache copied out bytes of one installed      *)
(* segment that covers its range.                                          *)
CopiesOneInstall ==
    \A g \in DOMAIN gor :
        (ReturnedInRange(g) /\ gor[g].read.status = 0) =>
            \E i \in installs :
                /\ gor[g].read.off >= i.start
                /\ gor[g].read.off + gor[g].read.len <= i.end
                /\ gor[g].read.data =
                     SubSeq(i.data, gor[g].read.off - i.start + 1,
                            gor[g].read.off - i.start + gor[g].read.len)

(* C25, as stated: for any interleaving of concurrent ReadAt calls every   *)
(* call returns the blob bytes at its own offset, the cache fields are     *)
(* read under the read lock and replaced as a whole under the write lock,  *)
(* and no call copies out bounds and bytes of different installs.          *)
C25_ConcurrentReads ==
    /\ ReturnsOwnBytes
    /\ CacheUnderLock
    /\ CopiesOneInstall

--------------------------------------------------------------------------
(* The SOCI block of extractFromLayer on an image of one layer: the        *)
(* block's condition, the attempt extractSOCI makes, and the blocks that   *)
(* follow it for the same format.                                          *)

NoOutcome == Outcome(None, 0, NoLink, "none", FALSE)

SociBlock ==
    /\ opts.op = "soci"
    /\ ret = NoRet
    /\ LET f == ExtractFormat(layers[1], opts)
           index == ExtractSociIndex(opts)
           tried == ExtractTries(2, f, index)
       IN  ret' = [fn |-> "extractSOCI",
                   tried |-> tried,
                   outcome |-> IF tried
                               THEN extractSOCI(layers[1], index, opts, arg.env)
                               ELSE NoOutcome,
                   rest |-> {t \in 3..LastStage : ExtractTries(t, f, index)}]
    /\ UNCHANGED <<orchVars, readerVars, callVars, arg>>

InitSoci ==
    /\ layers \in [1..1 -> ExtractLayers]
    /\ sociIndex \in BOOLEAN
    /\ opts \in [op : {"soci"}, FilePath : FilePaths,
                 ForceFormat : {FormatUnknown, FormatSOCI}]
    /\ pc = "try"
    /\ li = 1
    /\ format = FormatUnknown
    /\ stage = 2
    /\ attempts = NoAttempts
    /\ visited = <<>>
    /\ out = [dir |-> FALSE, file |-> NoFile]
    /\ result = NoResult
    /\ allFiles = <<>>
    /\ IdleReader
    /\ keychain = "anonymous"
    /\ cancelled = FALSE
    /\ \E env \in ZtocEnvs : arg = [fn |-> "soci", env |-> env]
    /\ ret = NoRet

NextSoci == SociBlock

SpecSoci == InitSoci /\ [][NextSoci]_vars

(* C26, as stated: the SOCI strategy is attempted on a layer only if a     *)
(* SOCI index was obtained for the image and the index holds a zTOC for    *)
(* the layer; for a layer without a zTOC no RemoteReader is opened for     *)
(* SOCI, and in auto mode the zstd-chunked and the streaming blocks        *)
(* follow.                                                                 *)
C26_SociNeedsZtoc ==
    ret.fn = "extractSOCI" =>
        /\ ret.tried => (ExtractSociIndex(opts) /\ arg.env.ztoc)
        /\ ~arg.env.ztoc => ~ret.outcome.reader
        /\ (opts.ForceFormat = FormatUnknown /\ ret.tried /\ ~arg.env.ztoc) =>
              /\ ret.outcome.kind # "success"
              /\ ret.rest = 3..LastStage

--------------------------------------------------------------------------
(* The ExtractFile of the three seekable extractors (estargz, zstd:chunked, *)
(* SOCI) over a RemoteReader, step by step.  The estargz, zstd, tar and     *)
(* ztoc libraries are outside the repository: what they read is drawn from *)
(* every range inside the blob, and whether they accept what they read,    *)
(* need more, or find the entry, from every possibility.  The extractors'  *)
(* own statements come in their order.  estargz: Open and Lookup and       *)
(* OpenFile, which read footer and TOC; MkdirAll and Create; io.Copy,      *)
(* which reads the content.  zstd:chunked: the same, but a failed Open,    *)
(* Lookup or OpenFile is followed by the zstd+tar walk of the blob.  SOCI: *)
(* Ztoc.ExtractFile, which reads the spans; MkdirAll and WriteFile.        *)

(* The strategies whose extractor reads through the RemoteReader.          *)
AttemptOps == {"estargz", "chunked", "soci"}

(* ExtractFile returned `err`.                                             *)
ExtractFileReturned(err) == [fn |-> "ExtractFile", err |-> err]

(* The output file as os.Create leaves it, and as a finished io.Copy does. *)
Created == [dir |-> TRUE, file |-> [layer |-> 1, entry |-> 1, complete |-> FALSE]]
Copied == [dir |-> TRUE, file |-> [layer |-> 1, entry |-> 1, complete |-> TRUE]]

(* The reads io.NewSectionReader(reader, 0, size) forwards to the reader:  *)
(* a read at or past the end of the section is answered with EOF by the    *)
(* section itself, and one that reaches past the end is cut to the end     *)
(* before it is forwarded.                                                 *)
SectionReads ==
    {r \in [len : 1..MaxRead, off : 0..MaxBlob] : r.off + r.len <= rd.size}

(* The library reads through the section: ReadAt is entered.               *)
LibraryRead == \E r \in SectionReads : CallWith(1, r.len, r.off)

(* estargz.Open, Lookup, OpenFile, between the reads.  After a failed read *)
(* ExtractFile returns.  Otherwise the library reads footer or TOC through *)
(* the section, or estargz.Open fails: on a blob shorter than a footer     *)
(* before anything was read, else on the bytes it got.  Once it has read,  *)
(* Lookup can miss the path, OpenFile can refuse the entry, or the file    *)
(* reader is handed out.                                                   *)
EStargzOpen ==
    /\ opts.op = "estargz"
    /\ pc = "open"
    /\ gor[1].pc = "idle"
    /\ IF gor[1].read.err # None
       THEN /\ pc' = "done"
            /\ ret' = ExtractFileReturned("failed to open estargz")
            /\ gor' = gor
       ELSE \/ /\ LibraryRead
               /\ UNCHANGED <<pc, ret>>
            \/ /\ pc' = "done"
               /\ ret' = ExtractFileReturned("failed to open estargz")
               /\ gor' = gor
            \/ /\ gor[1].read.called
               /\ \E then \in {"create", "absent", "refused"} :
                     /\ pc' = IF then = "create" THEN "create" ELSE "done"
                     /\ ret' = CASE then = "absent" ->
                                       ExtractFileReturned("not found in layer TOC")
                                 [] then = "refused" ->
                                       ExtractFileReturned("failed to open file")
                                 [] OTHER -> ret
               /\ gor' = gor
    /\ UNCHANGED <<layers, sociIndex, opts, li, format, stage, attempts, visited,
                   out, result, allFiles, rd, blob, reqs, wire, cacheMu,
                   installs, callVars, arg>>

(* os.MkdirAll and os.Create, either of which can fail.                    *)
EStargzCreate ==
    /\ opts.op = "estargz"
    /\ pc = "create"
    /\ \E io \in {"ok", "mkdir", "create"} :
          /\ out' = CASE io = "mkdir" -> out
                      [] io = "create" -> [out EXCEPT !.dir = TRUE]
                      [] OTHER -> Created
          /\ pc' = IF io = "ok" THEN "copy" ELSE "done"
          /\ ret' = CASE io = "mkdir" ->
                           ExtractFileReturned("failed to create output directory")
                      [] io = "create" ->
                           ExtractFileReturned("failed to create output file")
                      [] OTHER -> ret
    /\ UNCHANGED <<layers, sociIndex, opts, li, format, stage, attempts, visited,
                   result, allFiles, readerVars, callVars, arg>>

(* io.Copy(outFile, fileReader), between the reads.  After a failed read   *)
(* ExtractFile returns with the file as it is.  Otherwise the copy reads   *)
(* content through the section, or is complete, or fails on the bytes it   *)
(* decodes or on the write to the file, which stays as it is.              *)
EStargzCopy ==
    /\ opts.op = "estargz"
    /\ pc = "copy"
    /\ gor[1].pc = "idle"
    /\ IF gor[1].read.err # None
       THEN /\ pc' = "done"
            /\ ret' = ExtractFileReturned("failed to copy file contents")
            /\ UNCHANGED <<out, gor>>
       ELSE \/ /\ LibraryRead
               /\ UNCHANGED <<pc, ret, out>>
            \/ /\ pc' = "done"
               /\ ret' = ExtractFileReturned(None)
               /\ out' = Copied
               /\ gor' = gor
            \/ /\ pc' = "done"
               /\ ret' = ExtractFileReturned("failed to copy file contents")
               /\ UNCHANGED <<out, gor>>
    /\ UNCHANGED <<layers, sociIndex, opts, li, format, stage, attempts, visited,
                   result, allFiles, rd, blob, reqs, wire, cacheMu, installs,
                   callVars, arg>>

(* ChunkedExtractor.ExtractFile up to OpenFile: estargz.Open, Lookup,      *)
(* OpenFile, between the reads.  A failed read makes estargz.Open fail,    *)
(* and like every failure of Open, a path Lookup does not find and an      *)
(* OpenFile that refuses, this is no return: the extractor goes on to the  *)
(* zstd+tar walk.                                                          *)
ChunkedOpen ==
    /\ opts.op = "chunked"
    /\ pc = "open"
    /\ gor[1].pc = "idle"
    /\ IF gor[1].read.err # None
       THEN /\ pc' = "walk"
            /\ gor' = gor
       ELSE \/ /\ LibraryRead
               /\ pc' = pc
            \/ /\ pc' = "walk"
               /\ gor' = gor
            \/ /\ gor[1].read.called
               /\ pc' = "create"
               /\ gor' = gor
    /\ ret' = ret
    /\ UNCHANGED <<layers, sociIndex, opts, li, format, stage, attempts, visited,
                   out, result, allFiles, rd, blob, reqs, wire, cacheMu,
                   installs, callVars, arg>>

(* The zstd+tar walk of ChunkedExtractor.ExtractFile: a new section over   *)
(* the same reader, zstd.NewReader, tar.NewReader and the loop over        *)
(* tarReader.Next(), between the reads.  The walk reads the blob from its  *)
(* start (pc = "walk": nothing read by it yet; an empty blob is at its end *)
(* without a read).  A failed read fails Next; otherwise the walk reads    *)
(* on, reaches the end of the archive, fails on the bytes, finds the       *)
(* target to be no regular file, or finds it.                              *)
ChunkedWalk ==
    /\ opts.op = "chunked"
    /\ pc \in {"walk", "walking"}
    /\ gor[1].pc = "idle"
    /\ IF pc = "walking" /\ gor[1].read.err # None
       THEN /\ pc' = "done"
            /\ ret' = ExtractFileReturned("failed to read tar entry")
            /\ gor' = gor
       ELSE \/ /\ LibraryRead
               /\ pc' = "walking"
               /\ ret' = ret
            \/ /\ pc = "walking" \/ rd.size = 0
               /\ \E err \in {"not found in layer", "failed to read tar entry",
                               "not a regular file"} :
                     ret' = ExtractFileReturned(err)
               /\ pc' = "done"
               /\ gor' = gor
            \/ /\ pc = "walking"
               /\ pc' = "create"
               /\ ret' = ret
               /\ gor' = gor
    /\ UNCHANGED <<layers, sociIndex, opts, li, format, stage, attempts, visited,
                   out, result, allFiles, rd, blob, reqs, wire, cacheMu,
                   installs, callVars, arg>>

(* os.MkdirAll and os.Create of ChunkedExtractor.ExtractFile, after        *)
(* OpenFile and after the walk found the target.                           *)
ChunkedCreate ==
    /\ opts.op = "chunked"
    /\ pc = "create"
    /\ \E io \in {"ok", "mkdir", "create"} :
          /\ out' = CASE io = "mkdir" -> out
                      [] io = "create" -> [out EXCEPT !.dir = TRUE]
                      [] OTHER -> Created
          /\ pc' = IF io = "ok" THEN "copy" ELSE "done"
          /\ ret' = CASE io = "mkdir" ->
                           ExtractFileReturned("failed to create output directory")
                      [] io = "create" ->
                           ExtractFileReturned("failed to create output file")
                      [] OTHER -> ret
    /\ UNCHANGED <<layers, sociIndex, opts, li, format, stage, attempts, visited,
                   result, allFiles, readerVars, callVars, arg>>

(* io.Copy of ChunkedExtractor.ExtractFile, from the file reader of the    *)
(* TOC or from the tar reader of the walk, between the reads.              *)
ChunkedCopy ==
    /\ opts.op = "chunked"
    /\ pc = "copy"
    /\ gor[1].pc = "idle"
    /\ IF gor[1].read.err # None
       THEN /\ pc' = "done"
            /\ ret' = ExtractFileReturned("failed to copy file contents")
            /\ UNCHANGED <<out, gor>>
       ELSE \/ /\ LibraryRead
               /\ UNCHANGED <<pc, ret, out>>
            \/ /\ pc' = "done"
               /\ ret' = ExtractFileReturned(None)
               /\ out' = Copied
               /\ gor' = gor
            \/ /\ pc' = "done"
               /\ ret' = ExtractFileReturned("failed to copy file contents")
               /\ UNCHANGED <<out, gor>>
    /\ UNCHANGED <<layers, sociIndex, opts, li, format, stage, attempts, visited,
                   result, allFiles, rd, blob, reqs, wire, cacheMu, installs,
                   callVars, arg>>

(* Ztoc.ExtractFile(sr, targetPath) of soci.Extractor.ExtractFile, between *)
(* the reads.  After a failed read it fails and ExtractFile returns.       *)
(* Otherwise it reads spans through the section, fails (the path is not in *)
(* the zTOC, or the bytes do not decode), or returns the file's bytes:     *)
(* the only condition of the code is err == nil, and for an entry without  *)
(* content the zTOC in memory answers with nothing read.                   *)
ZtocExtract ==
    /\ opts.op = "soci"
    /\ pc = "open"
    /\ gor[1].pc = "idle"
    /\ IF gor[1].read.err # None
       THEN /\ pc' = "done"
            /\ ret' = ExtractFileReturned("failed to extract file")
            /\ gor' = gor
       ELSE \/ /\ LibraryRead
               /\ UNCHANGED <<pc, ret>>
            \/ /\ pc' = "done"
               /\ ret' = ExtractFileReturned("failed to extract file")
               /\ gor' = gor
            \/ /\ pc' = "write"
               /\ ret' = ret
               /\ gor' = gor
    /\ UNCHANGED <<layers, sociIndex, opts, li, format, stage, attempts, visited,
                   out, result, allFiles, rd, blob, reqs, wire, cacheMu,
                   installs, callVars, arg>>

(* os.MkdirAll and os.WriteFile of soci.Extractor.ExtractFile.  WriteFile  *)
(* can fail before it created the file or while it writes.                 *)
SociWrite ==
    /\ opts.op = "soci"
    /\ pc = "write"
    /\ \E io \in {"ok", "mkdir", "create", "write"} :
          /\ out' = CASE io = "mkdir" -> out
                      [] io = "create" -> [out EXCEPT !.dir = TRUE]
                      [] io = "write" -> Created
                      [] OTHER -> Copied
          /\ ret' = CASE io = "mkdir" ->
                           ExtractFileReturned("failed to create output directory")
                      [] io = "ok" -> ExtractFileReturned(None)
                      [] OTHER -> ExtractFileReturned("failed to write output file")
    /\ pc' = "done"
    /\ UNCHANGED <<layers, sociIndex, opts, li, format, stage, attempts, visited,
                   result, allFiles, readerVars, callVars, arg>>

(* extractEStargz, extractZstdChunked or extractSOCI has constructed the   *)
(* reader and the extractor, and calls ExtractFile.                        *)
InitAttempt ==
    /\ layers = <<>>
    /\ sociIndex = FALSE
    /\ opts \in [op : AttemptOps, FilePath : {<< "/", "a" >>},
                  ForceFormat : {FormatUnknown}]
    /\ pc = "open"
    /\ li = 0
    /\ format = FormatUnknown
    /\ stage = 1
    /\ attempts = NoAttempts
    /\ visited = <<>>
    /\ out = [dir |-> FALSE, file |-> NoFile]
    /\ result = NoResult
    /\ allFiles = <<>>
    /\ blob \in Blobs
    /\ \E resp \in HeadResponses(blob) :
          /\ resp.contentLength = Len(blob)
          /\ NewRemoteReader(resp).state = "open"
          /\ rd = NewRemoteReader(resp)
          /\ wire = HeadRequest(resp)
    /\ reqs = 0
    /\ cacheMu = Unlocked
    /\ gor = OneCaller
    /\ installs = {}
    /\ keychain = "anonymous"
    /\ IdleRest

NextAttempt ==
    \/ EStargzOpen
    \/ EStargzCreate
    \/ EStargzCopy
    \/ ChunkedOpen
    \/ ChunkedWalk
    \/ ChunkedCreate
    \/ ChunkedCopy
    \/ ZtocExtract
    \/ SociWrite
    \/ \E g \in Callers : InsideReadAt(g)

SpecAttempt == InitAttempt /\ [][NextAttempt]_vars

(* Properties of a strategy attempt over the reader.                       *)

(* The step is the ranged GET of a ReadAt, answered with a status other    *)
(* than 200 and 206.                                                       *)
RefusedRead ==
    /\ reqs' # reqs
    /\ last'.status \notin {0, StatusOK, StatusPartialContent}

(* ReadAt has returned from such an answer to the library call that       *)
(* issued the read, and the extractor has not gone on yet.                 *)
Refused ==
    /\ last.called
    /\ last.status \notin {0, StatusOK, StatusPartialContent}
    /\ gor[1].pc = "idle"
    /\ pc \notin {"walk", "done"}

(* C27, as stated: when a ranged GET is answered with a status other than  *)
(* 200 or 206, ReadAt returns an error and zero bytes, the cache fields    *)
(* stay as they were, and the strategy attempt that issued the read fails  *)
(* with no output file written.                                            *)
C27_RefusedReadNoOutput ==
    [][/\ RefusedRead =>
             /\ last'.called
             /\ last'.err # None /\ last'.n = 0 /\ last'.data = <<>>
             /\ rd' = rd
       /\ Refused =>
             /\ rd' = rd
             /\ pc' = "done" /\ ret'.err # None
             /\ out'.file = NoFile]_vars

(* The refused read was issued by the estargz.Open, Lookup or OpenFile of  *)
(* the zstd:chunked extractor.                                             *)
RefusedInChunkedOpen == Refused /\ opts.op = "chunked" /\ pc = "open"

(* C27, amended: when a ranged GET is answered with a status other than    *)
(* 200 or 206, ReadAt returns an error and zero bytes and the cache fields *)
(* stay as they were.  The library call that issued the read fails and     *)
(* nothing more is written.  In the eStargz and SOCI attempts, and in the  *)
(* walk and the copy of the zstd:chunked attempt, ExtractFile returns an   *)
(* error: with no output file if the read came before the file was         *)
(* created, with the file as created or as far as it was copied if the     *)
(* read was one of io.Copy.  In the zstd:chunked attempt a read refused    *)
(* while the TOC is opened does not end the attempt: it goes on to the     *)
(* zstd+tar walk of the blob, with no output file so far.                  *)
C27_RefusedReadFailsCall ==
    [][/\ RefusedRead =>
             /\ last'.called
             /\ last'.err # None /\ last'.n = 0 /\ last'.data = <<>>
             /\ rd' = rd
       /\ Refused =>
             /\ rd' = rd
             /\ out' = out
             /\ RefusedInChunkedOpen => (pc' = "walk" /\ ret' = ret)
             /\ ~RefusedInChunkedOpen => (pc' = "done" /\ ret'.err # None)
             /\ pc \in {"open", "walking"} => out'.file = NoFile
             /\ pc = "copy" => (out'.file # NoFile /\ ~out'.file.complete)]_vars

(* A read of estargz.Open in the zstd:chunked attempt was refused with     *)
(* 416: the extractor is at the start of its zstd+tar walk, has returned   *)
(* nothing and has no output file.                                         *)
C27_Witness ==
    /\ opts.op = "chunked"
    /\ pc = "walk"
    /\ last.called
    /\ last.status = StatusRangeNotSatisfiable
    /\ last.n = 0
    /\ ret = NoRet
    /\ out.file = NoFile
    /\ reqs = 1

--------------------------------------------------------------------------
(* The cache policy of ReadAt at the capacity of the cache.  Reads of a    *)
(* megabyte are not spelled out byte by byte: a segment of bytes is named  *)
(* by its offset and length, and the result of the ranged GET is drawn     *)
(* from the results ReadAt can have for it.                                *)

(* The byte counts on both sides of each test of the update.               *)
Counts == {0, 1, cacheSize, cacheSize + 1}

(* The bytes p[:n] read at off, unnamed when there are none.               *)
Segment(off, n) == IF n = 0 THEN <<>> ELSE <<[off |-> off, n |-> n]>>

BigSize == 2 * cacheSize + 4

(* The readers ReadAt can find: the cache never filled, or filled by an    *)
(* earlier read of 1 byte or of cacheSize bytes.                           *)
CachedReaders ==
    {[NoReader EXCEPT !.state = "open", !.client = ClientAuth, !.size = BigSize]}
      \cup {[NoReader EXCEPT !.state = "open", !.client = ClientAuth,
                             !.size = BigSize, !.cacheValid = TRUE,
                             !.cacheStart = start, !.cacheEnd = start + n,
                             !.cacheData = Segment(start, n)] :
              start \in {0, 1}, n \in {1, cacheSize}}

(* What ReadAt returns from the request on, for a buffer of len bytes at   *)
(* off: the request fails, the status is refused, the body breaks after n  *)
(* bytes short of the buffer, or n bytes are read.                         *)
RemoteResults(len, off) ==
    {ReadResult(off, len, 0, <<>>, "request failed", 0),
     ReadResult(off, len, 0, <<>>, "status", StatusRangeNotSatisfiable)}
      \cup {ReadResult(off, len, n, Segment(off, n), "failed to read response", st) :
              n \in {c \in Counts : c < len}, st \in {StatusOK, StatusPartialContent}}
      \cup {ReadResult(off, len, n, Segment(off, n), None, st) :
              n \in {c \in Counts : c <= len}, st \in {StatusOK, StatusPartialContent}}

(* ReadAt at an offset inside the blob: served from the cache, or sent and *)
(* the cache updated with what came back.                                  *)
CachePolicy ==
    /\ arg.fn = "cache"
    /\ ret = NoRet
    /\ ret' = [fn |-> "ReadAt",
               sent |-> NeedsRequest(arg.r, arg.len, arg.off),
               rd |-> IF NeedsRequest(arg.r, arg.len, arg.off)
                      THEN UpdateCache(arg.r, arg.read) ELSE arg.r]
    /\ UNCHANGED <<orchVars, readerVars, callVars, arg>>

InitCache ==
    \E r \in CachedReaders, len \in Counts, off \in {0, 1, cacheSize, cacheSize + 1} :
        \E read \in RemoteResults(len, off) :
            PureCall([fn |-> "cache", r |-> r, len |-> len, off |-> off,
                      read |-> read])

NextCache == CachePolicy

SpecCache == InitCache /\ [][NextCache]_vars

(* The range of the call lies inside the valid cached segment.             *)
InsideCache ==
    /\ arg.r.cacheValid
    /\ arg.off >= arg.r.cacheStart
    /\ arg.off + arg.len <= arg.r.cacheEnd

(* The cache holds exactly the segment the call read.                      *)
Replaced ==
    /\ ret.rd.cacheValid
    /\ ret.rd.cacheStart = arg.off
    /\ ret.rd.cacheEnd - ret.rd.cacheStart = arg.read.n
    /\ ret.rd.cacheData = arg.read.data

(* C28, as stated: a ReadAt whose range lies inside a valid cached segment *)
(* sends no request; a miss that returns a count n with 0 < n <= 1 MiB     *)
(* replaces the cache with start = off, length = n, valid; a miss with     *)
(* n > 1 MiB or n = 0 leaves the cache as it was.                          *)
C28_CachePolicyByCount ==
    ret.fn = "ReadAt" =>
        /\ InsideCache => (~ret.sent /\ ret.rd = arg.r)
        /\ (ret.sent /\ 0 < arg.read.n /\ arg.read.n <= cacheSize) => Replaced
        /\ (ret.sent /\ (arg.read.n > cacheSize \/ arg.read.n = 0)) =>
              ret.rd = arg.r

(* C28, amended: a ReadAt at an offset inside the blob sends no request    *)
(* exactly when its range lies inside a valid cached segment; a miss that  *)
(* returns without error a count n with 0 < n <= 1 MiB replaces the cache  *)
(* with start = off, length = n, valid; a miss that returns an error, or   *)
(* n > 1 MiB, or n = 0, leaves the cache as it was.                        *)
C28_CachePolicy ==
    ret.fn = "ReadAt" =>
        /\ InsideCache <=> ~ret.sent
        /\ ~ret.sent => ret.rd = arg.r
        /\ (ret.sent /\ arg.read.err = None
              /\ 0 < arg.read.n /\ arg.read.n <= cacheSize) => Replaced
        /\ (ret.sent /\ (arg.read.err # None \/ arg.read.n > cacheSize
                           \/ arg.read.n = 0)) => ret.rd = arg.r

(* A miss that read one byte more than the cache holds, on a reader whose  *)
(* cache was valid: the cache is as it was.                                *)
C28_Witness ==
    /\ ret.fn = "ReadAt"
    /\ ret.sent
    /\ arg.read.err = None
    /\ arg.read.n = cacheSize + 1
    /\ arg.r.cacheValid
    /\ ret.rd = arg.r

--------------------------------------------------------------------------
(* Further properties of Extract.                                          *)

(* Every layer above j was examined before, and no attempt on any of them  *)
(* succeeded: each ended in one of the kinds of `without`.                 *)
AboveExamined(j, without) ==
    /\ VisitedLayers = {i \in LayerNos : i > j}
    /\ \A i \in VisitedLayers : KindsAt(i) \subseteq without

(* The output holds the bytes of layer j, on which the last attempt        *)
(* succeeded.                                                              *)
WrittenFrom(j) ==
    /\ attempts.last.kind = "success"
    /\ attempts.last.layer = j
    /\ out.file.layer = j
    /\ out.file.complete

(* C29, as stated: Extract returns success with the bytes of layer j only  *)
(* after every layer above j has been examined and every attempt on those  *)
(* layers ended absent, non-regular or in a hard error; the bytes written  *)
(* are those of the first layer, top down, on which a strategy succeeded.  *)
C29_FirstSuccess ==
    Succeeded =>
        /\ AboveExamined(li, {"absent", "nonregular", "harderr"})
        /\ WrittenFrom(li)

--------------------------------------------------------------------------
(* The first match of the streaming walk.                                  *)

(* The first entry, in archive order, whose canonical name equals the      *)
(* request; 0 if there is none.                                            *)
WalkFirst ==
    IF WalkMatches = {} THEN 0
    ELSE CHOOSE k \in WalkMatches : \A j \in WalkMatches : k <= j

(* The walked layer with the archive cut off behind entry k.               *)
WalkLayerUpTo(k) ==
    [arg.layer EXCEPT !.entries = SubSeq(arg.layer.entries, 1, k)]

(* What the same ExtractFile returns on the layer `layer`.                 *)
WalkOutcomeOn(layer) ==
    IF ret.fn = FormatZstd
    THEN ZstdExtractFile(layer, arg.targetPath, arg.env)
    ELSE StandardExtractFile(layer, arg.targetPath, arg.env)

(* C30: a streaming ExtractFile that reads the layer decides on the first  *)
(* entry, in archive order, whose canonical name equals the request as     *)
(* ExtractFile compares the two (normalizedEntry with normalizedTarget).   *)
(* If that entry is a link or of another non-regular type it fails, if it  *)
(* is regular it writes that entry's bytes (all of them when the local     *)
(* file operations succeed), and in both cases the entries behind it play  *)
(* no part: the outcome is the one for the archive that ends with that     *)
(* entry, also when a later entry has the same name.                       *)
C30_FirstMatchDecides ==
    (Walked /\ WalkReads /\ WalkFirst # 0) =>
        LET o == ret.outcome
        IN  /\ o.entry = WalkFirst
            /\ o = WalkOutcomeOn(WalkLayerUpTo(WalkFirst))
            /\ ~WalkRegular(WalkFirst) =>
                  (o.kind = "nonregular" /\ o.effect = "none")
            /\ WalkRegular(WalkFirst) =>
                  /\ o.kind \in {"success", "ioerr"}
                  /\ WalkWrites => (o.kind = "success" /\ o.effect = "full")

(* A gzip layer holds the requested name twice, as a link first and as a   *)
(* regular file behind it: the walk failed on the link and wrote nothing.  *)
C30_Witness ==
    /\ ret.fn = FormatStandard
    /\ WalkReads
    /\ Len(arg.layer.entries) = 2
    /\ WalkMatches = {1, 2}
    /\ arg.layer.entries[1].typeflag = TypeLink
    /\ WalkRegular(2)
    /\ ret.outcome.kind = "nonregular"
    /\ ret.outcome.entry = 1
    /\ ret.outcome.effect = "none"

====
